---- MODULE Spec2Model ----
(***************************************************************************)
(* A model of the fetch hook system of src/hook.js (class                  *)
(* LaunchdHookSystem): the hook registry, the startup coordinator, the     *)
(* fetch interception pipeline, the request store and the event loops.     *)
(* JavaScript runs one job at a time; every action below is one            *)
(* run-to-suspension block of the code, from the place a job is resumed to *)
(* the next `await` that suspends it.                                      *)
(***************************************************************************)
EXTENDS Integers, Sequences, FiniteSets, TLC

VARIABLES
  hooks,             \* this.hooks: channel name -> array of hook entries
  regCount,          \* number of registerHook calls made so far
  registered,        \* what the last registerHook call returned or threw
  removed,           \* the error the last removeHook call threw, "none" if it returned
  calls,             \* direct executeHooks calls in progress (one frame per caller)
  storage,           \* this.storage: request id -> stored record
  startupProcesses,  \* this.startupProcesses
  startupInitiated,  \* this.startupInitiated
  procCount,         \* number of registerStartupProcess calls made so far
  ens,               \* the activations of ensureStartup, one per request
  late,              \* the late-registration jobs queued by Promise.resolve().then
  started,           \* every call of a startup process so far (a history variable)
  req,               \* the activations of the intercepted fetch, one per request
  loop               \* the event loop created by createEventLoop: its closure

registryVars == <<hooks, regCount, registered, removed, calls, storage>>
startupVars  == <<startupProcesses, startupInitiated, procCount, ens, late, started>>
vars == <<registryVars, startupVars, req, loop>>

(***************************************************************************)
(* Bounds of the model.                                                    *)
(***************************************************************************)
MaxRegs  == 2        \* registerHook calls explored
MaxProcs == 2        \* registerStartupProcess calls explored
MaxReq   == 2        \* requests (fetch calls, XHR sends) explored
MaxPageHooks == 1    \* registerHook calls explored beside running requests
MaxPageProcs == 1    \* registerStartupProcess calls explored beside running requests
MaxLoopOps == 3      \* start, stop and update calls on the loop explored
MaxTicks == 4        \* task invocations of the loop explored

Requests == 1..MaxReq

\* the direct callers of executeHooks: one activation at a time
Callers == {1}

(***************************************************************************)
(* Values.                                                                 *)
(***************************************************************************)
Channels == {"beforeRequest", "afterRequest", "onError", "urlReplace", "dataTransform"}

\* null and undefined, and the payload a direct caller hands to executeHooks
Null      == [tag |-> "null"]
Undefined == [tag |-> "undefined"]
Plain     == [tag |-> "plain", trail |-> <<>>]

\* what a callback invocation ends in
Returned(v) == [k |-> "value", v |-> v]
Nothing     == [k |-> "undefined", v |-> Undefined]
Thrown      == [k |-> "throw", v |-> Undefined]

\* options.id values a caller gives; NoId stands for an options object without id
NoId        == ""
ExplicitIds == {"a"}
Priorities  == {0, 10}

\* callbacks a direct user registers: one that returns a changed copy of the
\* payload, one that returns nothing, one that throws
UserCallbacks == {"mark", "none", "throw"}

(***************************************************************************)
(* registerHook, lines 35-51.                                              *)
(***************************************************************************)
\* `hook_${Date.now()}_${Math.random()}`: a fresh id for every call
GeneratedId(n) == "hook_" \o ToString(n)

RECURSIVE InsertByPriority(_, _)
\* Array.prototype.sort with (a, b) => b.priority - a.priority is a stable sort:
\* an entry moves in front of the entries of strictly lower priority only.
InsertUnstable(e, sorted) ==
  IF sorted = <<>> THEN <<e>>
  ELSE IF Head(sorted).priority > e.priority
       THEN <<Head(sorted)>> \o InsertByPriority(e, Tail(sorted))
       ELSE <<e>> \o sorted

InsertByPriority(e, sorted) ==
  IF sorted = <<>> THEN <<e>>
  ELSE IF Head(sorted).priority >= e.priority
       THEN <<Head(sorted)>> \o InsertByPriority(e, Tail(sorted))
       ELSE <<e>> \o sorted

RECURSIVE SortByPriority(_)
SortByPriority(s) ==
  IF s = <<>> THEN <<>>
  ELSE InsertByPriority(s[Len(s)], SortByPriority(SubSeq(s, 1, Len(s) - 1)))

\* the entry registerHook pushes; reg is the number of the registerHook call,
\* a history field the code does not hold (0 for the constructor's own hook)
NewEntry(id, priority, enabled, cb, n) ==
  [id       |-> IF id = NoId THEN GeneratedId(n) ELSE id,
   priority |-> priority,
   enabled  |-> enabled,
   cb       |-> cb,
   reg      |-> n]

Registered(chan, e) == [hooks EXCEPT ![chan] = SortByPriority(Append(@, e))]

\* names that are no channel: this.hooks is an object literal, so a name of
\* Object.prototype (toString) finds a function, and any other name undefined
InheritedNames == {"toString"}
UnknownNames   == {"unknown"} \cup InheritedNames

\* line 36-38: `throw new Error('Unknown hook')` when this.hooks[hookName] is
\* falsy; line 40: .push of a function is undefined, calling it a TypeError
RegisterError(chan) ==
  IF chan \in InheritedNames THEN "TypeError" ELSE "Error: Unknown hook"

\* line 50: options.id, or the id of the last entry of the sorted channel
ReturnedId(id, sorted) == IF id # NoId THEN id ELSE sorted[Len(sorted)].id

\* no registerHook call made yet (the constructor's own call apart)
NotRegistered == [kind |-> "none", chan |-> "none", value |-> "", reg |-> 0]

RegisterHook(chan, id, priority, enabled, cb) ==
  /\ regCount < MaxRegs
  /\ regCount' = regCount + 1
  /\ IF chan \notin Channels
     THEN /\ hooks' = hooks
          /\ registered' = [kind |-> "error", chan |-> chan,
                            value |-> RegisterError(chan), reg |-> regCount + 1]
     ELSE LET e == NewEntry(id, priority, enabled, cb, regCount + 1) IN
          /\ hooks' = Registered(chan, e)
          /\ registered' = [kind |-> "id", chan |-> chan,
                            value |-> ReturnedId(id, Registered(chan, e)[chan]),
                            reg |-> regCount + 1]
  /\ UNCHANGED <<removed, calls, storage, startupVars, req, loop>>

(***************************************************************************)
(* removeHook, lines 58-62.                                                *)
(***************************************************************************)
Keep(s, id) == SelectSeq(s, LAMBDA h : h.id # id)

\* line 59-60: for a name of Object.prototype this.hooks[hookName] is a
\* function, which is truthy and has no filter method: a TypeError
RemoveError(chan) == IF chan \in InheritedNames THEN "TypeError" ELSE "none"

RemoveHook(chan, id) ==
  /\ hooks' = IF chan \in Channels THEN [hooks EXCEPT ![chan] = Keep(@, id)] ELSE hooks
  /\ removed' = RemoveError(chan)
  /\ UNCHANGED <<regCount, registered, calls, storage, startupVars, req, loop>>

(***************************************************************************)
(* Callbacks.  A callback is known by a tag; Invoke is what a call of it   *)
(* with the current payload ends in.                                       *)
(***************************************************************************)
IsPlain(p) == p.tag = "plain"

\* setupStorage's hook, lines 262-269: reads data.request.id, returns nothing
AutoSave(arg) == IF arg.tag = "after" THEN Nothing ELSE Thrown

\* a user's hook that returns ({...data, trail: [...data.trail, id]})
Mark(id, arg) ==
  IF IsPlain(arg) THEN Returned([arg EXCEPT !.trail = Append(@, id)]) ELSE Thrown

\* Bodies.  The decoded body of a response is an object (json), a string
\* (text) or a buffer; a hook may put another object or string in its place.
\* Values are compared by identity, as !== compares them (line 173).
DecodedBody(ctype) ==
  CASE ctype = "json" -> "obj:orig" [] ctype = "text" -> "str:orig" [] OTHER -> "buf:orig"
IsString(b) == b \in {"str:orig", "str:new", "str:corrupt"}

\* Urls are strings, kept as sequences of characters.  FromUrl and ToUrl are
\* the arguments of replaceUrl ("a.c/x", "b.c/x"); ToUrlDollar is a target with
\* a dollar sign in it ("b.c/$&")
FromUrl  == <<"a", ".", "c", "/", "x">>
ToUrl    == <<"b", ".", "c", "/", "x">>
ToUrlDollar == <<"b", ".", "c", "/", "$", "&">>
Urls     == {FromUrl}

\* line 297: fromUrl.replace(/[.*+?^${}()|[\]\\]/g, '\\$&') puts a backslash in front
\* of every character of the class; an atom is a character of the pattern and
\* whether it is escaped
RegexSpecial ==
  {".", "*", "+", "?", "^", "$", "{", "}", "(", ")", "|", "[", "]", "\\"}
Escaped(fromUrl) ==
  [k \in DOMAIN fromUrl |-> [char |-> fromUrl[k], escaped |-> fromUrl[k] \in RegexSpecial]]

\* one atom against one character: an unescaped dot takes any character, any
\* other unescaped special character takes none, the rest take themselves
AtomMatches(atom, c) ==
  IF atom.escaped \/ atom.char \notin RegexSpecial THEN atom.char = c
  ELSE atom.char = "."

\* matcher.test(url) for new RegExp('^' + escaped + '$'), lines 296-301
Test(matcher, url) ==
  /\ Len(url) = Len(matcher)
  /\ \A k \in DOMAIN matcher : AtomMatches(matcher[k], url[k])

\* the replacement text of String.prototype.replace(regexp, string), line 304:
\* $$ is a dollar sign, $& the matched text, $` and $' the text before and
\* after the match (empty for an anchored match); the pattern has no groups
RECURSIVE Expanded(_, _)
Expanded(toUrl, matched) ==
  IF toUrl = <<>> THEN <<>>
  ELSE IF Head(toUrl) = "$" /\ Len(toUrl) >= 2 /\ toUrl[2] \in {"$", "&", "`", "'"}
       THEN (CASE toUrl[2] = "$" -> <<"$">>
               [] toUrl[2] = "&" -> matched
               [] OTHER          -> <<>>) \o Expanded(Tail(Tail(toUrl)), matched)
       ELSE <<Head(toUrl)>> \o Expanded(Tail(toUrl), matched)

\* replaceUrl's hook, lines 300-314, for string arguments
ReplaceUrl(fromUrl, toUrl, arg) ==
  IF arg.tag # "url" THEN Thrown
  ELSE IF Test(Escaped(fromUrl), arg.url)
       THEN Returned([arg EXCEPT !.url = Expanded(toUrl, arg.url)])
       ELSE Returned(arg)

\* replaceInResponse's hook, lines 323-341, registered with a pattern that
\* matches the content; valid says whether the replaced text of a json body
\* still parses (JSON.parse of line 336 throws when it does not)
ReplaceInResponse(arg, valid) ==
  IF arg.tag # "transform" THEN Thrown
  ELSE CASE arg.bodyType = "text" -> Returned([arg EXCEPT !.body = "str:new"])
         [] arg.bodyType = "json" ->
              IF valid THEN Returned([arg EXCEPT !.body = "obj:new"]) ELSE Thrown
         [] OTHER -> Returned(arg)

\* a user's data-transform hook that returns ({...data, body: '<text>'}) with a
\* text that is no JSON
SetBodyText(arg) ==
  IF arg.tag # "transform" THEN Thrown ELSE Returned([arg EXCEPT !.body = "str:corrupt"])

\* a user's before-request hooks that return a changed copy of their payload:
\* (data) => ({...data, resource: '<other>'}), which sends the request
\* elsewhere, and (data) => ({...data, requestData: {...data.requestData, url:
\* '<fromUrl>'}}), which changes the url the url-replace chain is given
Rerouted == <<"r", ".", "c", "/", "x">>
SetResource(arg) ==
  IF arg.tag # "before" THEN Thrown ELSE Returned([arg EXCEPT !.resource = Rerouted])
SetRequestUrl(arg) ==
  IF arg.tag # "before" THEN Thrown ELSE Returned([arg EXCEPT !.requestData.url = FromUrl])

\* a user's after-request hook that returns a changed copy of its payload:
\* (data) => ({...data, response: {...data.response, body: '<text>'}})
Rewrite(arg) ==
  IF arg.tag # "after" THEN Thrown
  ELSE Returned([arg EXCEPT !.response.body = "str:new"])

Invoke(hook, arg) ==
  CASE hook.cb = "mark"        -> Mark(hook.id, arg)
    [] hook.cb = "none"        -> Nothing
    [] hook.cb = "throw"       -> Thrown
    [] hook.cb = "null"        -> Returned(Null)
    [] hook.cb = "autosave"    -> AutoSave(arg)
    [] hook.cb = "replaceUrl"  -> ReplaceUrl(FromUrl, ToUrl, arg)
    [] hook.cb = "replaceUrlDollar" -> ReplaceUrl(FromUrl, ToUrlDollar, arg)
    [] hook.cb = "replaceText" -> ReplaceInResponse(arg, TRUE)
    [] hook.cb = "replaceTextInvalid" -> ReplaceInResponse(arg, FALSE)
    [] hook.cb = "setBodyText" -> SetBodyText(arg)
    [] hook.cb = "rewrite"     -> Rewrite(arg)
    [] hook.cb = "setResource" -> SetResource(arg)
    [] hook.cb = "setRequestUrl" -> SetRequestUrl(arg)
    [] OTHER                   -> Thrown

\* this.storage after the callback has run: only setupStorage's hook writes it
Saved(hook, arg, store) ==
  IF hook.cb = "autosave" /\ arg.tag = "after"
  THEN (arg.request.id :> [request |-> arg.request, response |-> arg.response]) @@ store
  ELSE store

(***************************************************************************)
(* executeHooks, lines 70-87.  A frame is one activation of it: the        *)
(* filtered copy of the channel, the index of the hook awaited, result,    *)
(* and the calls made so far (log, a history field).                       *)
(***************************************************************************)
IdleFrame ==
  [st |-> "idle", chan |-> "none", list |-> <<>>, i |-> 0,
   result |-> Undefined, data |-> Undefined, log |-> <<>>]

Enabled(s) == SelectSeq(s, LAMBDA h : h.enabled)

\* hook.callback(result, data) is called: what the log keeps of the call
Called(hook, arg) ==
  [id |-> hook.id, cb |-> hook.cb, priority |-> hook.priority, reg |-> hook.reg,
   arg |-> arg, out |-> Invoke(hook, arg).k, val |-> Invoke(hook, arg).v]

\* lines 71-76: filter, result = data, and the first callback is called.  For a
\* name that is no channel this.hooks[hookName] has no filter method: line 71
\* throws a TypeError and the promise executeHooks returns is rejected
ExecStartLenient(chan, data) ==
  LET list == IF chan \in Channels THEN Enabled(hooks[chan]) ELSE <<>> IN
  IF list = <<>>
  THEN [IdleFrame EXCEPT !.st = "done", !.chan = chan, !.result = data, !.data = data]
  ELSE [st |-> "await", chan |-> chan, list |-> list, i |-> 1,
        result |-> data, data |-> data, log |-> <<Called(list[1], data)>>]

ExecStart(chan, data) ==
  IF chan \notin Channels
  THEN [IdleFrame EXCEPT !.st = "failed", !.chan = chan, !.data = data]
  ELSE LET list == Enabled(hooks[chan]) IN
       IF list = <<>>
       THEN [IdleFrame EXCEPT !.st = "done", !.chan = chan, !.result = data, !.data = data]
       ELSE [st |-> "await", chan |-> chan, list |-> list, i |-> 1,
             result |-> data, data |-> data, log |-> <<Called(list[1], data)>>]

\* lines 77-83: what result is once the awaited callback has settled
ResultDropped(f, out) == IF out.k = "throw" THEN f.result ELSE out.v
ResultAfter(f, out) == IF out.k = "value" THEN out.v ELSE f.result

\* the awaited callback settles; the loop goes on to call the next one or returns
\* (st "failed" is executeHooks itself rejecting: with the try/catch of lines
\* 75-83 around the call no callback brings it about)
ExecResumeNoCatch(f) ==
  LET out == Invoke(f.list[f.i], f.result)
      res == ResultAfter(f, out)
  IN IF out.k = "throw" THEN [f EXCEPT !.st = "failed"]
     ELSE IF f.i < Len(f.list)
     THEN [f EXCEPT !.i = f.i + 1, !.result = res,
                    !.log = Append(@, Called(f.list[f.i + 1], res))]
     ELSE [f EXCEPT !.st = "done", !.result = res]

\* the loop of executeHooks were it to walk the channel's array itself, as it
\* is when the awaited callback has settled, and not the copy of line 71
ExecResumeLive(f) ==
  LET out == Invoke(f.list[f.i], f.result)
      res == ResultAfter(f, out)
      now == Enabled(hooks[f.chan])
  IN IF f.i < Len(now)
     THEN [f EXCEPT !.i = f.i + 1, !.result = res,
                    !.log = Append(@, Called(now[f.i + 1], res))]
     ELSE [f EXCEPT !.st = "done", !.result = res]

ExecResume(f) ==
  LET out == Invoke(f.list[f.i], f.result)
      res == ResultAfter(f, out)
  IN IF f.i < Len(f.list)
     THEN [f EXCEPT !.i = f.i + 1, !.result = res,
                    !.log = Append(@, Called(f.list[f.i + 1], res))]
     ELSE [f EXCEPT !.st = "done", !.result = res]

\* the hook a frame is suspended in, and the one it calls next on resuming
Awaited(f) == f.list[f.i]
CallsNext(f) == f.st = "await" /\ f.i < Len(f.list)

(***************************************************************************)
(* A direct caller of executeHooks (launchctl.system.executeHooks).        *)
(***************************************************************************)
ExecuteCall(c, chan) ==
  /\ calls[c].st # "await"
  /\ LET f == ExecStart(chan, Plain) IN
       /\ calls' = [calls EXCEPT ![c] = f]
       /\ storage' = IF f.st = "await" THEN Saved(f.list[1], Plain, storage) ELSE storage
  /\ UNCHANGED <<hooks, regCount, registered, removed, startupVars, req, loop>>

ExecuteResume(c) ==
  /\ calls[c].st = "await"
  /\ LET f == calls[c]
         g == ExecResume(f)
     IN /\ calls' = [calls EXCEPT ![c] = g]
        /\ storage' = IF CallsNext(f) THEN Saved(g.list[g.i], g.result, storage) ELSE storage
  /\ UNCHANGED <<hooks, regCount, registered, removed, startupVars, req, loop>>


(***************************************************************************)
(* The startup coordinator, lines 399-450.                                 *)
(***************************************************************************)
StartupCallbacks == {"ok", "throw"}

\* registerStartupProcess, lines 400-408: the process pushed (history fields:
\* reg, the number of the call, and initiated, the value of startupInitiated
\* when it was made) and the array after push and sort
NewProcess(priority, runIfAlreadyStarted, cb, n) ==
  [id |-> "startup_" \o ToString(n), priority |-> priority,
   runIfAlreadyStarted |-> runIfAlreadyStarted, cb |-> cb, reg |-> n,
   initiated |-> startupInitiated]

\* one activation of ensureStartup.  The for...of loop of line 434 walks the
\* array object that this.startupProcesses named when the loop began: the
\* live array (alias) until removeStartupProcess replaces it by a filtered
\* copy, and from then on the old array (arr), which nothing changes any more.
IdleEnsure ==
  [st |-> "idle", first |-> FALSE, alias |-> FALSE, arr |-> <<>>, i |-> 0,
   trigger |-> "none", atCall |-> <<>>]

Walked(a) == IF a.alias THEN startupProcesses ELSE a.arr

\* safeInvokeStartup, lines 439-450: the callback is called; a failure is caught
StartupCall(process, trigger, by) ==
  [id |-> process.id, reg |-> process.reg, priority |-> process.priority,
   runIfAlreadyStarted |-> process.runIfAlreadyStarted, initiated |-> process.initiated,
   trigger |-> trigger, by |-> by, out |-> process.cb]

\* line 432: the flag once ensureStartup has passed the check of line 428
FlagSet(flag) == TRUE

\* lines 428-435: return at once when initiated; else set the flag and call the
\* first process
EnsureEnter(r, trigger) ==
  IF startupInitiated
  THEN /\ ens' = [ens EXCEPT ![r] = [IdleEnsure EXCEPT !.st = "done", !.trigger = trigger]]
       /\ UNCHANGED <<startupInitiated, started>>
  ELSE /\ startupInitiated' = FlagSet(startupInitiated)
       /\ IF startupProcesses = <<>>
          THEN /\ ens' = [ens EXCEPT ![r] = [IdleEnsure EXCEPT
                          !.st = "done", !.first = TRUE, !.trigger = trigger]]
               /\ UNCHANGED started
          ELSE /\ ens' = [ens EXCEPT ![r] =
                          [st |-> "await", first |-> TRUE, alias |-> TRUE, arr |-> <<>>,
                           i |-> 1, trigger |-> trigger, atCall |-> startupProcesses]]
               /\ started' = Append(started, StartupCall(startupProcesses[1], trigger, r))

\* the loop of ensureStartup were a failing process not caught: the rejection
\* ends the activation
EnsureResumeUncaught(r) ==
  /\ ens[r].st = "await"
  /\ LET a == ens[r]
         arr == Walked(a)
         mine == SelectSeq(started, LAMBDA c : c.by = r)
     IN IF mine[Len(mine)].out = "throw"
        THEN /\ ens' = [ens EXCEPT ![r].st = "failed"]
             /\ UNCHANGED started
        ELSE IF a.i + 1 <= Len(arr)
        THEN /\ ens' = [ens EXCEPT ![r].i = a.i + 1]
             /\ started' = Append(started, StartupCall(arr[a.i + 1], a.trigger, r))
        ELSE /\ ens' = [ens EXCEPT ![r].st = "done"]
             /\ UNCHANGED started
  /\ UNCHANGED <<startupProcesses, startupInitiated, procCount, late>>

\* the loop of ensureStartup were the coordinator to go back to not-started
\* when the process awaited has failed, so that a later request tries again
EnsureResumeRetry(r) ==
  /\ ens[r].st = "await"
  /\ LET a == ens[r]
         arr == Walked(a)
         mine == SelectSeq(started, LAMBDA c : c.by = r)
     IN /\ IF a.i + 1 <= Len(arr)
           THEN /\ ens' = [ens EXCEPT ![r].i = a.i + 1]
                /\ started' = Append(started, StartupCall(arr[a.i + 1], a.trigger, r))
           ELSE /\ ens' = [ens EXCEPT ![r].st = "done"]
                /\ UNCHANGED started
        /\ startupInitiated' = (mine[Len(mine)].out # "throw")
  /\ UNCHANGED <<startupProcesses, procCount, late>>

\* lines 434-436 and 447-449: the awaited process has settled, or has failed
\* and the failure was caught and logged; the iterator moves on
EnsureResume(r) ==
  /\ ens[r].st = "await"
  /\ LET a == ens[r]
         arr == Walked(a)
     IN IF a.i + 1 <= Len(arr)
        THEN /\ ens' = [ens EXCEPT ![r].i = a.i + 1]
             /\ started' = Append(started, StartupCall(arr[a.i + 1], a.trigger, r))
        ELSE /\ ens' = [ens EXCEPT ![r].st = "done"]
             /\ UNCHANGED started
  /\ UNCHANGED <<startupProcesses, startupInitiated, procCount, late>>

\* a direct call of ensureStartup, as fetch (line 107) and xhr.send (line 232) make
EnsureStartup(r, trigger) ==
  /\ ens[r].st = "idle"
  /\ EnsureEnter(r, trigger)
  /\ UNCHANGED <<startupProcesses, procCount, late>>

\* registerStartupProcess, lines 399-417
RegisterStartupProcess(priority, runIfAlreadyStarted, cb) ==
  /\ procCount < MaxProcs
  /\ procCount' = procCount + 1
  /\ LET process == NewProcess(priority, runIfAlreadyStarted, cb, procCount + 1) IN
       /\ startupProcesses' = SortByPriority(Append(startupProcesses, process))
       /\ late' = IF startupInitiated /\ process.runIfAlreadyStarted
                  THEN Append(late, process) ELSE late
  /\ UNCHANGED <<startupInitiated, ens, started>>

\* the job queued at lines 411-413 runs
LateRegistrationRun ==
  /\ late # <<>>
  /\ started' = Append(started, StartupCall(Head(late), "late-registration", 0))
  /\ late' = Tail(late)
  /\ UNCHANGED <<startupProcesses, startupInitiated, procCount, ens>>

\* removeStartupProcess, lines 423-425: a new array; loops in progress keep the old
RemoveStartupProcess(id) ==
  /\ startupProcesses' = Keep(startupProcesses, id)
  /\ ens' = [r \in Requests |->
               IF ens[r].st = "await" /\ ens[r].alias
               THEN [ens[r] EXCEPT !.alias = FALSE, !.arr = startupProcesses]
               ELSE ens[r]]
  /\ UNCHANGED <<startupInitiated, procCount, late, started>>


(***************************************************************************)
(* The intercepted fetch, lines 96-217.  One activation per request:       *)
(* pc is the await the activation is suspended at.                         *)
(***************************************************************************)
NoResponse == [ctype |-> "none", decodes |-> FALSE, nullBody |-> FALSE]
\* what the caller gets: the transport's response object or a rebuilt one, of
\* which init is the response its status, statusText and headers were taken from
NoOutcome  ==
  [kind |-> "none", response |-> "none", body |-> "none", error |-> "none",
   init |-> NoResponse]

\* what the transport can answer: the content type, whether the body decodes
\* as that type, and whether the status is a null body status (204, 205, 304),
\* for which `new Response(body, {status})` with a body throws a TypeError.
\* A json response with a null body status has an empty body, which does not parse.
Responses ==
  {x \in [ctype : {"json", "text", "binary"}, decodes : BOOLEAN, nullBody : BOOLEAN] :
     /\ x.nullBody => (x.ctype = "json" /\ ~x.decodes)
     /\ ~x.decodes => x.ctype = "json"}

IdleRequest ==
  [pc |-> "idle", url |-> <<>>, frame |-> IdleFrame, modified |-> Undefined,
   sentUrl |-> <<>>, response |-> NoResponse, bodyType |-> "none", body |-> "undefined",
   responseBody |-> "undefined", bodyTransformed |-> FALSE, newBody |-> "none",
   error |-> "none", outcome |-> NoOutcome, chains |-> <<>>, transformLog |-> <<>>,
   cleared |-> FALSE]

\* lines 97-104 and 110-114: requestData and the payload of beforeRequest
RequestData(r, url) == [id |-> r, url |-> url, urlReplaced |-> FALSE]
BeforePayload(r, url) ==
  [tag |-> "before", resource |-> url, requestData |-> RequestData(r, url)]
\* lines 118-121
UrlPayload(m, originalUrl) ==
  [tag |-> "url", url |-> m.requestData.url, originalUrl |-> originalUrl]
\* lines 136-144: responseData
Snapshot(q) ==
  [bodyType |-> q.bodyType, body |-> q.body, bodyTransformed |-> q.bodyTransformed,
   requestData |-> q.modified.requestData]
\* lines 168-171
TransformPayload(q) ==
  [tag |-> "transform", bodyType |-> q.bodyType, body |-> q.body,
   originalBody |-> q.responseBody, bodyTransformed |-> FALSE,
   requestData |-> q.modified.requestData]
\* lines 189-193 and 199-203
AfterPayload(q) ==
  [tag |-> "after", request |-> q.modified.requestData, response |-> Snapshot(q)]
\* lines 209-213
ErrorPayload(r, q) ==
  [tag |-> "error", request |-> RequestData(r, q.url), error |-> q.error]

\* lines 175-177: the body text of the rebuilt response
Serialized(b) == IF IsString(b) THEN b ELSE "json(" \o b \o ")"

\* an activation calls executeHooks(chan, data): the frame, and the storage
\* after the callback called in this step (if one was called) has run
Entered(q, pc, chan, data) ==
  [q EXCEPT !.pc = pc, !.frame = ExecStart(chan, data), !.chains = Append(@, chan)]
StoredBy(f) ==
  IF f.st = "await" THEN Saved(f.list[f.i], f.log[f.i].arg, storage) ELSE storage

\* lines 207-213: the catch block calls the onError chain
CaughtAsAfter(r, q, error) ==
  LET e == [q EXCEPT !.error = error] IN Entered(e, "onerror", "afterRequest", ErrorPayload(r, e))

Caught(r, q, error) ==
  LET e == [q EXCEPT !.error = error] IN Entered(e, "onerror", "onError", ErrorPayload(r, e))

\* `await self.executeHooks(...)` is over: the chain has returned or has rejected;
\* a rejection inside the try block goes to the catch block
SettledOrNot(f) == TRUE

Settled(f) == f.st \in {"done", "failed"}

\* the second argument of fetch: an init object (or none, line 96's default), or
\* null, which the default does not replace
Options == [tag |-> "options"]

\* lines 96-107: fetch is called; it builds requestData, calls ensureStartup and
\* awaits it.  Reading options.method of null (line 99) throws a TypeError in
\* front of the try block: the promise fetch returns is rejected at once
FetchCall(r, url, options) ==
  /\ req[r].pc = "idle"
  /\ ens[r].st = "idle"
  /\ IF options = Null
     THEN /\ req' = [req EXCEPT ![r] =
                       [IdleRequest EXCEPT !.pc = "thrown", !.url = url,
                          !.error = "TypeError",
                          !.outcome = [NoOutcome EXCEPT !.kind = "error",
                                                       !.error = "TypeError"]]]
          /\ UNCHANGED <<ens, startupInitiated, started>>
     ELSE /\ EnsureEnter(r, "fetch")
          /\ req' = [req EXCEPT ![r] = [IdleRequest EXCEPT !.pc = "startup", !.url = url]]
  /\ UNCHANGED <<registryVars, startupProcesses, procCount, late, loop>>

\* lines 110-114: ensureStartup has returned; the beforeRequest chain is called
FetchBeforeRequest(r) ==
  /\ req[r].pc = "startup"
  /\ ens[r].st = "done"
  /\ LET q == Entered(req[r], "before", "beforeRequest", BeforePayload(r, req[r].url)) IN
       /\ req' = [req EXCEPT ![r] = q]
       /\ storage' = StoredBy(q.frame)
  /\ UNCHANGED <<hooks, regCount, registered, removed, calls, startupVars, loop>>

\* the callback a chain of this request awaits has settled (lines 76-83)
FetchHookSettles(r) ==
  /\ req[r].pc \in {"before", "urlrep", "transform", "after", "onerror"}
  /\ req[r].frame.st = "await"
  /\ LET f == req[r].frame
         g == ExecResume(f)
     IN /\ req' = [req EXCEPT ![r].frame = g]
        /\ storage' = IF CallsNext(f) THEN StoredBy(g) ELSE storage
  /\ UNCHANGED <<hooks, regCount, registered, removed, calls, startupVars, loop>>

\* lines 117-121: beforeRequest has returned; the urlReplace chain is called.
\* Reading .resource of a null result throws a TypeError into the catch block.
FetchUrlReplace(r) ==
  /\ req[r].pc = "before"
  /\ Settled(req[r].frame)
  /\ LET m == req[r].frame.result
         q == IF req[r].frame.st = "failed" THEN Caught(r, req[r], "HookError")
              ELSE IF m = Null
              THEN Caught(r, req[r], "TypeError")
              ELSE Entered([req[r] EXCEPT !.modified = m], "urlrep", "urlReplace",
                           UrlPayload(m, req[r].url))
     IN /\ req' = [req EXCEPT ![r] = q]
        /\ storage' = StoredBy(q.frame)
  /\ UNCHANGED <<hooks, regCount, registered, removed, calls, startupVars, loop>>

\* lines 123-129: the request data after the urlReplace chain has returned u
UrlAlwaysApplied(m, u) ==
  IF u # Null
  THEN [m EXCEPT !.resource = u.url, !.requestData.url = u.url,
                 !.requestData.urlReplaced = TRUE]
  ELSE m

UrlApplied(m, u) ==
  IF u # Null /\ u.url # m.requestData.url
  THEN [m EXCEPT !.resource = u.url, !.requestData.url = u.url,
                 !.requestData.urlReplaced = TRUE]
  ELSE m

\* lines 123-132: urlReplace has returned; the transport is called
FetchTransport(r) ==
  /\ req[r].pc = "urlrep"
  /\ Settled(req[r].frame)
  /\ LET m == UrlApplied(req[r].modified, req[r].frame.result)
         q == IF req[r].frame.st = "failed" THEN Caught(r, req[r], "HookError")
              ELSE [req[r] EXCEPT !.pc = "transport", !.modified = m, !.sentUrl = m.resource]
     IN /\ req' = [req EXCEPT ![r] = q]
        /\ storage' = IF q.pc = "onerror" THEN StoredBy(q.frame) ELSE storage
  /\ UNCHANGED <<hooks, regCount, registered, removed, calls, startupVars, loop>>

\* line 132 rejects: the catch block
TransportFails(r) ==
  /\ req[r].pc = "transport"
  /\ LET q == Caught(r, req[r], "TransportError") IN
       /\ req' = [req EXCEPT ![r] = q]
       /\ storage' = StoredBy(q.frame)
  /\ UNCHANGED <<hooks, regCount, registered, removed, calls, startupVars, loop>>

\* lines 132-160: the transport answers; the clone's body is read
TransportResponds(r, resp) ==
  /\ req[r].pc = "transport"
  /\ req' = [req EXCEPT ![r].pc = "decode", ![r].response = resp]
  /\ UNCHANGED <<registryVars, startupVars, loop>>

\* lines 150-165: the body as decoded, or null and 'unknown' when reading failed
Decoded(q) ==
  IF q.response.decodes
  THEN [q EXCEPT !.bodyType = q.response.ctype, !.body = DecodedBody(q.response.ctype),
                 !.responseBody = DecodedBody(q.response.ctype)]
  ELSE [q EXCEPT !.bodyType = "unknown", !.body = "null"]

\* lines 150-171: the read has settled; the dataTransform chain is called
FetchDataTransform(r) ==
  /\ req[r].pc = "decode"
  /\ LET d == Decoded(req[r])
         q == Entered(d, "transform", "dataTransform", TransformPayload(d))
     IN /\ req' = [req EXCEPT ![r] = q]
        /\ storage' = StoredBy(q.frame)
  /\ UNCHANGED <<hooks, regCount, registered, removed, calls, startupVars, loop>>

\* line 173: whether the chain's result counts as a transformed body
BodyDiffers(t, responseBody) == t.body # responseBody

\* lines 173-203: dataTransform has returned t; the response is rebuilt when the
\* body differs, and the afterRequest chain is called
Finalized(r, q, t) ==
  IF q.frame.st = "failed" THEN Caught(r, q, "HookError")
  ELSE IF t = Null THEN Caught(r, q, "TypeError")
  ELSE IF BodyDiffers(t, q.responseBody)
       THEN IF q.response.nullBody
            THEN Caught(r, q, "TypeError")
            ELSE LET n == [q EXCEPT !.body = t.body, !.bodyTransformed = TRUE,
                                    !.newBody = Serialized(t.body)]
                 IN Entered(n, "after", "afterRequest", AfterPayload(n))
       ELSE Entered(q, "after", "afterRequest", AfterPayload(q))

FetchAfterRequest(r) ==
  /\ req[r].pc = "transform"
  /\ Settled(req[r].frame)
  /\ LET q == Finalized(r, [req[r] EXCEPT !.transformLog = req[r].frame.log],
                        req[r].frame.result) IN
       /\ req' = [req EXCEPT ![r] = q]
       /\ storage' = StoredBy(q.frame)
  /\ UNCHANGED <<hooks, regCount, registered, removed, calls, startupVars, loop>>

\* lines 195 and 205: afterRequest has returned; the caller gets the response
Handed(q) ==
  IF q.newBody = "none"
  THEN [kind |-> "response", response |-> "original", body |-> "unread", error |-> "none",
        init |-> NoResponse]
  ELSE [kind |-> "response", response |-> "rebuilt", body |-> q.newBody, error |-> "none",
        init |-> q.response]

FetchReturns(r) ==
  /\ req[r].pc = "after"
  /\ Settled(req[r].frame)
  /\ LET q == IF req[r].frame.st = "failed" THEN Caught(r, req[r], "HookError")
              ELSE [req[r] EXCEPT !.pc = "returned", !.outcome = Handed(req[r])]
     IN /\ req' = [req EXCEPT ![r] = q]
        /\ storage' = IF q.pc = "onerror" THEN StoredBy(q.frame) ELSE storage
  /\ UNCHANGED <<hooks, regCount, registered, removed, calls, startupVars, loop>>

\* line 215: onError has returned; the error is thrown to the caller
FetchThrows(r) ==
  /\ req[r].pc = "onerror"
  /\ Settled(req[r].frame)
  /\ req' = [req EXCEPT ![r].pc = "thrown",
                        ![r].outcome = [NoOutcome EXCEPT
                           !.kind = "error",
                           !.error = IF req[r].frame.st = "failed" THEN "HookError"
                                     ELSE req[r].error]]
  /\ UNCHANGED <<registryVars, startupVars, loop>>

(***************************************************************************)
(* createEventLoop, lines 456-588.  One loop: loopConfig and state are the *)
(* closure's objects.  Timers are known by what the code can tell of them: *)
(* state.timer is null, the handle of a pending timer, or the stale handle *)
(* of a timer that has fired; others counts the pending timers whose       *)
(* handle state.timer no longer holds.  inflight counts the runTask        *)
(* activations suspended at `await loopConfig.task(...)`.                  *)
(***************************************************************************)
Infinity == 1000

\* the ceiling of the configurations explored, and the one update raises it to
Ceiling == 2
RaisedCeiling == Ceiling + 1

LoopIds     == {"housekeeping"}
Intervals   == {"constant", "function"}
\* tasks: an async function, one that throws before its first await, an async
\* one whose promise rejects, and an async one that calls the stop function it
\* is given
Tasks       == {"async", "throws", "rejects", "stops"}
Conditions  == {"none", "belowCeiling"}
OnStops     == {"none", "callback", "throws"}
StopReasons == {"manual", "custom"}

\* lines 463-471: loopConfig as built from config
LoopConfig(interval, task, condition, maxIterations, autoStart, onStop) ==
  [interval |-> interval, task |-> task, condition |-> condition,
   maxIterations |-> maxIterations, autoStart |-> autoStart, onStop |-> onStop]

\* lines 473-479: state (lastRunAt 0 is null; a timestamp is the number of the
\* task invocation, counted by now)
LoopState ==
  [iterations |-> 0, lastRunAt |-> 0, running |-> FALSE, timer |-> "null"]

NoStop == [reason |-> "none", state |-> LoopState]
NoTick == [delay |-> "none", by |-> "none", seen |-> 0, after |-> 0, ms |-> 0]

\* ops, stopCalls, lastStop, runs, asked and idleStops are history fields: the
\* controller calls made, the calls of onStop and the last one's argument, the
\* task invocations since the last start, the reason given by the last stop
\* call that found the loop running, and the stop calls that found it stopped;
\* raised says that update has raised maxIterations since the loop was started,
\* and idleWakes counts the timers that fired and the tasks that settled since
\* the last start and found the loop stopped; tick says of the pending timer
\* state.timer holds which interval its delay was computed from, which
\* function called scheduleNext to set it, the iterations the interval was
\* evaluated on (seen), the delay in milliseconds (ms) and, when runTask set
\* it, the counter value its own tick had incremented to (after); flying holds
\* that value for every task invocation in progress, and ended for the one
\* whose end is being handled
NoLoop ==
  [created |-> FALSE, id |-> "none",
   config |-> LoopConfig("constant", "async", "none", Infinity, FALSE, "none"),
   state |-> LoopState, others |-> 0, inflight |-> 0, now |-> 0,
   ops |-> 0, stopCalls |-> 0, lastStop |-> NoStop, runs |-> 0, asked |-> "none",
   idleStops |-> 0, raised |-> FALSE, idleWakes |-> 0, tick |-> NoTick,
   flying |-> <<>>, ended |-> 0]

\* the condition as it would evaluate were the counter incremented first
ConditionAfterIncrement(l) ==
  l.config.condition = "none" \/ l.state.iterations + 1 < Ceiling

\* the condition of the example: ({ iterations }) => iterations < ceiling
ConditionHolds(l) ==
  l.config.condition = "none" \/ l.state.iterations < Ceiling

\* clearTimeout(state.timer); state.timer = null (lines 499-502, 560-563)
TimerCleared(l) == [l EXCEPT !.state.timer = "null", !.tick = NoTick]

\* line 463: the interval of a configuration that gives none
DefaultInterval == 1000

\* lines 485-487: loopConfig.interval, or what it returns when it is a function;
\* the function of the configurations explored is a ramp that falls below zero:
\* ({ iterations }) => ceiling - iterations
IntervalOf(l) ==
  IF l.config.interval = "function" THEN Ceiling - l.state.iterations
  ELSE DefaultInterval

\* line 489: Math.max(0, Number(interval) || 0)
Delay(interval) == IF interval > 0 THEN interval ELSE 0

\* scheduleNext, lines 480-491: a new timer, whose delay is computed from
\* loopConfig.interval and whose handle replaces state.timer; by is the caller
ScheduleNext(l, by) ==
  IF ~l.state.running THEN l
  ELSE [l EXCEPT !.others = IF l.state.timer = "pending" THEN @ + 1 ELSE @,
                 !.state.timer = "pending",
                 !.tick = [delay |-> l.config.interval, by |-> by,
                           seen  |-> l.state.iterations,
                           after |-> IF by = "runTask" THEN l.ended ELSE 0,
                           ms    |-> Delay(IntervalOf(l))]]

\* stop, lines 493-511
StopAlways(l, reason) ==
  LET s == TimerCleared([l EXCEPT !.state.running = FALSE]) IN
    IF s.config.onStop # "none"
    THEN [s EXCEPT !.stopCalls = @ + 1,
                   !.lastStop = [reason |-> reason, state |-> s.state]]
    ELSE s

Stop(l, reason) ==
  IF ~l.state.running THEN l
  ELSE LET s == TimerCleared([l EXCEPT !.state.running = FALSE]) IN
         IF s.config.onStop # "none"
         THEN [s EXCEPT !.stopCalls = @ + 1,
                        !.lastStop = [reason |-> reason, state |-> s.state]]
         ELSE s

\* start without the guard of line 549
StartAlways(l) ==
  ScheduleNext([l EXCEPT !.state.running = TRUE, !.state.iterations = 0, !.runs = 0],
               "start")

\* start, lines 548-555
Start(l) ==
  IF l.state.running THEN l
  ELSE ScheduleNext([l EXCEPT !.state.running = TRUE, !.state.iterations = 0, !.runs = 0],
                    "start")

\* update, lines 557-566: Object.assign(loopConfig, newConfig), then reschedule
Assigned(config, newConfig) ==
  [f \in DOMAIN config |-> IF f \in DOMAIN newConfig THEN newConfig[f] ELSE config[f]]

Update(l, newConfig) ==
  LET c == [l EXCEPT !.config = Assigned(l.config, newConfig)] IN
    IF c.state.running THEN ScheduleNext(TimerCleared(c), "update") ELSE c

\* a task whose failure is not caught: the exception leaves runTask
AfterTaskUncaught(l) ==
  IF l.config.task \in {"throws", "rejects"} THEN l
  ELSE IF ~l.state.running THEN l
  ELSE IF l.state.iterations >= l.config.maxIterations
       THEN [Stop(l, "maxIterations") EXCEPT !.asked = "maxIterations"]
       ELSE ScheduleNext(l, "runTask")

\* lines 532-546: the rest of runTask once the task has settled, fulfilled or
\* rejected (the catch block only logs)
AfterTask(l) ==
  IF ~l.state.running THEN l
  ELSE IF l.state.iterations >= l.config.maxIterations
       THEN [Stop(l, "maxIterations") EXCEPT !.asked = "maxIterations"]
       ELSE ScheduleNext(l, "runTask")

\* lines 513-531: runTask up to the await of the task; stops says whether the
\* task calls the stop function before it suspends
RunTaskUnguarded(l, stops) ==
  IF ~ConditionHolds(l)
  THEN [Stop(l, "condition") EXCEPT !.asked = "condition"]
  ELSE LET t == [l EXCEPT !.state.iterations = @ + 1, !.state.lastRunAt = l.now + 1,
                          !.now = @ + 1, !.runs = @ + 1]
       IN CASE t.config.task = "throws" ->
                 [AfterTask([t EXCEPT !.ended = t.state.iterations]) EXCEPT !.ended = 0]
            [] t.config.task = "stops" /\ stops ->
                 [Stop(t, "completed") EXCEPT !.asked = "completed", !.inflight = @ + 1,
                    !.flying = Append(@, t.state.iterations)]
            [] OTHER -> [t EXCEPT !.inflight = @ + 1,
                                  !.flying = Append(@, t.state.iterations)]

RunTask(l, stops) ==
  IF ~l.state.running THEN l
  ELSE IF ~ConditionHolds(l)
       THEN [Stop(l, "condition") EXCEPT !.asked = "condition"]
       ELSE LET t == [l EXCEPT !.state.iterations = @ + 1, !.state.lastRunAt = l.now + 1,
                               !.now = @ + 1, !.runs = @ + 1]
            IN CASE t.config.task = "throws" ->
                      [AfterTask([t EXCEPT !.ended = t.state.iterations]) EXCEPT !.ended = 0]
                 [] t.config.task = "stops" /\ stops ->
                      [Stop(t, "completed") EXCEPT !.asked = "completed",
                         !.inflight = @ + 1, !.flying = Append(@, t.state.iterations)]
                 [] OTHER -> [t EXCEPT !.inflight = @ + 1,
                                       !.flying = Append(@, t.state.iterations)]

\* createEventLoop, lines 456-588
CreateEventLoop(id, config) ==
  /\ ~loop.created
  /\ loop' = LET l == [NoLoop EXCEPT !.created = TRUE, !.id = id, !.config = config]
             IN IF config.autoStart THEN Start(l) ELSE l
  /\ UNCHANGED <<registryVars, startupVars, req>>

\* controller.start()
LoopStart ==
  /\ loop.created /\ loop.ops < MaxLoopOps
  /\ loop' = [Start(loop) EXCEPT !.ops = @ + 1,
                 !.raised = IF loop.state.running THEN @ ELSE FALSE,
                 !.idleWakes = IF loop.state.running THEN @ ELSE 0]
  /\ UNCHANGED <<registryVars, startupVars, req>>

\* controller.stop(reason)
LoopStop(reason) ==
  /\ loop.created /\ loop.ops < MaxLoopOps
  /\ loop' = [Stop(loop, reason) EXCEPT !.ops = @ + 1,
                 !.asked = IF loop.state.running THEN reason ELSE @,
                 !.idleStops = IF loop.state.running THEN @ ELSE @ + 1]
  /\ UNCHANGED <<registryVars, startupVars, req>>

\* stopEventLoop(id, reason), lines 590-595
StopEventLoop(id, reason) ==
  /\ loop.ops < MaxLoopOps
  /\ loop' = IF loop.created /\ loop.id = id
             THEN [Stop(loop, reason) EXCEPT !.ops = @ + 1,
                      !.asked = IF loop.state.running THEN reason ELSE @,
                      !.idleStops = IF loop.state.running THEN @ ELSE @ + 1]
             ELSE [loop EXCEPT !.ops = @ + 1]
  /\ UNCHANGED <<registryVars, startupVars, req>>

\* controller.update(newConfig)
LoopUpdate(newConfig) ==
  /\ loop.created /\ loop.ops < MaxLoopOps
  /\ loop' = [Update(loop, newConfig) EXCEPT !.ops = @ + 1,
                 !.raised = IF "maxIterations" \in DOMAIN newConfig
                            THEN /\ loop.state.running
                                 /\ newConfig.maxIterations > loop.config.maxIterations
                                 /\ newConfig.maxIterations >= loop.state.iterations
                            ELSE @]
  /\ UNCHANGED <<registryVars, startupVars, req>>

\* the timer state.timer holds fires: runTask runs
TimerFires(stops) ==
  /\ loop.state.timer = "pending"
  /\ loop.now < MaxTicks
  /\ loop' = RunTask([loop EXCEPT !.state.timer = "stale", !.tick = NoTick,
                                  !.idleWakes = IF loop.state.running THEN @ ELSE @ + 1],
                      stops)
  /\ UNCHANGED <<registryVars, startupVars, req>>

\* a pending timer that state.timer no longer holds fires: runTask runs
OtherTimerFires(stops) ==
  /\ loop.others > 0
  /\ loop.now < MaxTicks
  /\ loop' = RunTask([loop EXCEPT !.others = @ - 1,
                                  !.idleWakes = IF loop.state.running THEN @ ELSE @ + 1],
                      stops)
  /\ UNCHANGED <<registryVars, startupVars, req>>

\* a sequence without its i-th element
Without(s, i) == SubSeq(s, 1, i - 1) \o SubSeq(s, i + 1, Len(s))

\* the task awaited by one of the suspended runTask activations settles
TaskSettles ==
  /\ loop.inflight > 0
  /\ \E i \in DOMAIN loop.flying :
       loop' = [AfterTask([loop EXCEPT !.inflight = @ - 1,
                                       !.flying = Without(@, i),
                                       !.ended = loop.flying[i],
                                       !.idleWakes = IF loop.state.running THEN @ ELSE @ + 1])
                  EXCEPT !.ended = 0]
  /\ UNCHANGED <<registryVars, startupVars, req>>

(***************************************************************************)
(* The store, lines 277-289.                                               *)
(***************************************************************************)
\* getStoredRequests() without an id: the records by request id
GetStoredRequests == storage

\* clearStorage, lines 287-289.  cleared is a history field of a request: a
\* clearStorage call has deleted a record of it
ClearStorage ==
  /\ storage' = <<>>
  /\ req' = [r \in Requests |-> [req[r] EXCEPT !.cleared = @ \/ r \in DOMAIN storage]]
  /\ UNCHANGED <<hooks, regCount, registered, removed, calls, startupVars, loop>>

(***************************************************************************)
(* The state after `new LaunchdHookSystem()`: setupStorage has registered  *)
(* the store's hook in afterRequest (lines 261-270).                       *)
(***************************************************************************)
AutoSaveEntry ==
  [id |-> "auto-save", priority |-> -1000, enabled |-> TRUE, cb |-> "autosave", reg |-> 0]

Init ==
  /\ hooks = [c \in Channels |-> IF c = "afterRequest" THEN <<AutoSaveEntry>> ELSE <<>>]
  /\ regCount = 0
  /\ registered = NotRegistered
  /\ removed = "none"
  /\ calls = [c \in Callers |-> IdleFrame]
  /\ storage = <<>>
  /\ startupProcesses = <<>>
  /\ startupInitiated = FALSE
  /\ procCount = 0
  /\ ens = [r \in Requests |-> IdleEnsure]
  /\ late = <<>>
  /\ started = <<>>
  /\ req = [r \in Requests |-> IdleRequest]
  /\ loop = NoLoop

(***************************************************************************)
(* The registry under register, remove and execute calls of its users.     *)
(***************************************************************************)
RegistryChannels == {"afterRequest", "urlReplace"}
KnownIds == ExplicitIds \cup {GeneratedId(n) : n \in 1..MaxRegs}

NextHooks ==
  \/ \E chan \in RegistryChannels, id \in ExplicitIds \cup {NoId}, p \in Priorities,
        en \in BOOLEAN, cb \in UserCallbacks : RegisterHook(chan, id, p, en, cb)
  \/ \E chan \in RegistryChannels, id \in KnownIds : RemoveHook(chan, id)
  \/ \E c \in Callers, chan \in RegistryChannels : ExecuteCall(c, chan)
  \/ \E c \in Callers : ExecuteResume(c)

SpecHooks == Init /\ [][NextHooks]_vars

(***************************************************************************)
(* The registry called with any name and any id: the names of channels and *)
(* names that are none, the ids register has returned and the store's.     *)
(***************************************************************************)
NamesTried == {"afterRequest"} \cup UnknownNames
IdsTried   == KnownIds \cup {"auto-save"}

NextNames ==
  \/ \E name \in NamesTried, id \in ExplicitIds \cup {NoId}, p \in Priorities :
        RegisterHook(name, id, p, TRUE, "none")
  \/ \E name \in NamesTried, id \in IdsTried : RemoveHook(name, id)
  \/ \E c \in Callers, name \in NamesTried : ExecuteCall(c, name)
  \/ \E c \in Callers : ExecuteResume(c)

SpecNames == Init /\ [][NextNames]_vars

(***************************************************************************)
(* The startup coordinator under requests that call ensureStartup and      *)
(* users that register and remove startup processes.                       *)
(***************************************************************************)
\* the caller of ensureStartup: fetch (line 107) or xhr.send (line 232)
TriggerOf(r) == IF r % 2 = 1 THEN "fetch" ELSE "xhr"

ProcessIds == {"startup_" \o ToString(n) : n \in 1..MaxProcs}

NextStartup ==
  \/ \E p \in Priorities, rias \in BOOLEAN, cb \in StartupCallbacks :
        /\ RegisterStartupProcess(p, rias, cb)
        /\ UNCHANGED <<registryVars, req, loop>>
  \/ \E id \in ProcessIds : RemoveStartupProcess(id) /\ UNCHANGED <<registryVars, req, loop>>
  \/ \E r \in Requests : EnsureStartup(r, TriggerOf(r)) /\ UNCHANGED <<registryVars, req, loop>>
  \/ \E r \in Requests : EnsureResume(r) /\ UNCHANGED <<registryVars, req, loop>>
  \/ LateRegistrationRun /\ UNCHANGED <<registryVars, req, loop>>

SpecStartup == Init /\ [][NextStartup]_vars

(***************************************************************************)
(* The pipeline under interleaved fetch calls, with hooks and startup      *)
(* processes registered by the page at any moment.                         *)
(***************************************************************************)
\* the hooks a page registers, each with default options
PageHooks ==
  {<<"beforeRequest", "throw">>, <<"beforeRequest", "null">>,
   <<"urlReplace", "replaceUrl">>,
   <<"dataTransform", "replaceText">>, <<"dataTransform", "replaceTextInvalid">>,
   <<"dataTransform", "setBodyText">>, <<"dataTransform", "null">>,
   <<"afterRequest", "throw">>, <<"afterRequest", "null">>, <<"onError", "none">>}

NextFetch ==
  \/ \E h \in PageHooks :
        regCount < MaxPageHooks /\ RegisterHook(h[1], NoId, 0, TRUE, h[2])
  \/ \E cb \in StartupCallbacks :
        /\ procCount < MaxPageProcs
        /\ RegisterStartupProcess(0, TRUE, cb)
        /\ UNCHANGED <<registryVars, req, loop>>
  \/ \E r \in Requests : EnsureResume(r) /\ UNCHANGED <<registryVars, req, loop>>
  \/ LateRegistrationRun /\ UNCHANGED <<registryVars, req, loop>>
  \/ \E r \in Requests, url \in Urls, options \in {Options, Null} :
        FetchCall(r, url, options)
  \/ \E r \in Requests : FetchBeforeRequest(r)
  \/ \E r \in Requests : FetchHookSettles(r)
  \/ \E r \in Requests : FetchUrlReplace(r)
  \/ \E r \in Requests : FetchTransport(r)
  \/ \E r \in Requests : TransportFails(r)
  \/ \E r \in Requests, resp \in Responses : TransportResponds(r, resp)
  \/ \E r \in Requests : FetchDataTransform(r)
  \/ \E r \in Requests : FetchAfterRequest(r)
  \/ \E r \in Requests : FetchReturns(r)
  \/ \E r \in Requests : FetchThrows(r)
  \/ ClearStorage

SpecFetch == Init /\ [][NextFetch]_vars

(***************************************************************************)
(* The pipeline with after-request hooks of any priority beside the        *)
(* store's own.                                                            *)
(***************************************************************************)
\* the priorities given: the default, and one below the store's (line 269)
StorePriorities == {0, AutoSaveEntry.priority - 1000}

\* after-request hooks that return nothing, fail, return null, return a copy
AfterCallbacks == {"none", "throw", "null", "rewrite"}

NextStore ==
  \/ \E p \in StorePriorities, cb \in AfterCallbacks :
        regCount < MaxPageHooks /\ RegisterHook("afterRequest", NoId, p, TRUE, cb)
  \/ \E r \in Requests, url \in Urls : FetchCall(r, url, Options)
  \/ \E r \in Requests : FetchBeforeRequest(r)
  \/ \E r \in Requests : FetchHookSettles(r)
  \/ \E r \in Requests : FetchUrlReplace(r)
  \/ \E r \in Requests : FetchTransport(r)
  \/ \E r \in Requests : TransportFails(r)
  \/ \E r \in Requests, resp \in Responses : TransportResponds(r, resp)
  \/ \E r \in Requests : FetchDataTransform(r)
  \/ \E r \in Requests : FetchAfterRequest(r)
  \/ \E r \in Requests : FetchReturns(r)
  \/ \E r \in Requests : FetchThrows(r)

SpecStore == Init /\ [][NextStore]_vars

(***************************************************************************)
(* Requests to several urls with hooks registered by replaceUrl, up to the *)
(* transport call.                                                         *)
(***************************************************************************)
\* the urls requested: FromUrl, one that differs from it in its last character,
\* one that contains it, and one with another character in the place of the dot
RequestedUrls ==
  {FromUrl,
   <<"a", ".", "c", "/", "y">>,
   <<"a", ".", "c", "/", "x", "x">>,
   <<"a", "b", "c", "/", "x">>}

\* the toUrl argument of the replaceUrl call that registered a hook
ToUrlOf(cb) == IF cb = "replaceUrlDollar" THEN ToUrlDollar ELSE ToUrl

NextUrl ==
  \/ \E cb \in {"replaceUrl", "replaceUrlDollar"} :
        regCount < MaxPageHooks /\ RegisterHook("urlReplace", NoId, 0, TRUE, cb)
  \/ \E r \in Requests, url \in RequestedUrls : FetchCall(r, url, Options)
  \/ \E r \in Requests : FetchBeforeRequest(r)
  \/ \E r \in Requests : FetchHookSettles(r)
  \/ \E r \in Requests : FetchUrlReplace(r)
  \/ \E r \in Requests : FetchTransport(r)
  \/ \E r \in Requests : TransportFails(r)
  \/ \E r \in Requests : FetchThrows(r)

SpecUrl == Init /\ [][NextUrl]_vars

(***************************************************************************)
(* Requests with before-request hooks that change the resource or the url  *)
(* and url-replace hooks, up to the transport call.                        *)
(***************************************************************************)
ResourceHooks ==
  {<<"beforeRequest", "setResource">>, <<"beforeRequest", "setRequestUrl">>,
   <<"urlReplace", "replaceUrl">>, <<"urlReplace", "null">>}

\* the url requested differs from FromUrl in its last character: a url-replace
\* hook of replaceUrl matches it only after a before-request hook has set it
ResourceUrls == {<<"a", ".", "c", "/", "y">>}

NextResource ==
  \/ \E h \in ResourceHooks : RegisterHook(h[1], NoId, 0, TRUE, h[2])
  \/ \E r \in Requests, url \in ResourceUrls : FetchCall(r, url, Options)
  \/ \E r \in Requests : FetchBeforeRequest(r)
  \/ \E r \in Requests : FetchHookSettles(r)
  \/ \E r \in Requests : FetchUrlReplace(r)
  \/ \E r \in Requests : FetchTransport(r)

SpecResource == Init /\ [][NextResource]_vars

(***************************************************************************)
(* One event loop under calls of its controller, its timers and its task.  *)
(***************************************************************************)
\* the configurations created: with and without a ceiling, a condition, a stop
\* callback; the rejecting task in a started loop without condition or callback
LoopConfigs ==
  {LoopConfig(i, t, c, m, a, o) :
     i \in {"function"}, t \in Tasks \ {"rejects"}, c \in Conditions,
     m \in {Ceiling, Infinity}, a \in BOOLEAN, o \in OnStops}
  \cup {LoopConfig("function", "rejects", "none", m, TRUE, "none") :
          m \in {Ceiling, Infinity}}

\* the arguments of update
NewConfigs == {[maxIterations |-> RaisedCeiling], [interval |-> "constant"]}

NextLoop ==
  \/ \E id \in LoopIds, config \in LoopConfigs : CreateEventLoop(id, config)
  \/ LoopStart
  \/ \E reason \in StopReasons : LoopStop(reason)
  \/ \E id \in LoopIds \cup {"unknown"} : StopEventLoop(id, "manual")
  \/ \E newConfig \in NewConfigs : LoopUpdate(newConfig)
  \/ \E stops \in BOOLEAN : TimerFires(stops)
  \/ \E stops \in BOOLEAN : OtherTimerFires(stops)
  \/ TaskSettles

SpecLoop == Init /\ [][NextLoop]_vars

(***************************************************************************)
(* Claims on the registry.                                                 *)
(***************************************************************************)
\* one activation of executeHooks called its hooks in descending priority
\* order, equal priorities in the order of their registerHook calls, and once
\* it has returned it has called every enabled entry it found
InOrder(log) ==
  \A i, j \in DOMAIN log :
    i < j => \/ log[i].priority > log[j].priority
             \/ log[i].priority = log[j].priority /\ log[i].reg < log[j].reg

CalledAll(f) ==
  /\ Len(f.log) = Len(f.list)
  /\ \A k \in DOMAIN f.log : f.log[k].reg = f.list[k].reg

\* C1: after any sequence of register and remove calls, execute invokes the
\* enabled entries of the channel in descending priority order, and entries of
\* equal priority in the order in which they were registered.
C1_ExecuteInPriorityOrder ==
  \A c \in Callers :
    /\ InOrder(calls[c].log)
    /\ calls[c].st = "done" => CalledAll(calls[c])
    /\ \A chan \in Channels :
         \A i, j \in DOMAIN hooks[chan] :
           i < j => \/ hooks[chan][i].priority > hooks[chan][j].priority
                    \/ /\ hooks[chan][i].priority = hooks[chan][j].priority
                       /\ hooks[chan][i].reg < hooks[chan][j].reg

\* an activation that ran two hooks of equal priority, registered in that
\* order, and then the store's hook, which was registered before both
C1_Witness ==
  \E c \in Callers :
    LET f == calls[c] IN
      /\ f.st = "done" /\ Len(f.log) = 3
      /\ f.log[1].priority = f.log[2].priority
      /\ f.log[1].reg < f.log[2].reg
      /\ f.log[3].reg = 0

\* the payload hook k+1 is called with, given the call of hook k
PassedOn(call) == IF call.out = "value" THEN call.val ELSE call.arg

\* C4: the value hook k returns is the payload hook k+1 is called with and,
\* for the last hook, the result of execute; a hook that returns nothing
\* passes the payload it received on unchanged.
C4_PayloadChain ==
  \A c \in Callers :
    LET f == calls[c] IN
      /\ f.st # "idle" /\ f.log # <<>> => f.log[1].arg = f.data
      /\ \A k \in DOMAIN f.log :
           k < Len(f.log) => f.log[k + 1].arg = PassedOn(f.log[k])
      /\ f.st = "done" =>
           f.result = IF f.log = <<>> THEN f.data ELSE PassedOn(f.log[Len(f.log)])
      /\ f.st = "done" =>
           f.result \in {f.data} \cup {f.log[k].val : k \in {n \in DOMAIN f.log : f.log[n].out = "value"}}

\* an activation in which a hook returned a value, the next hook was called
\* with it and returned nothing, and the value is the result
C4_Witness ==
  \E c \in Callers :
    LET f == calls[c] IN
      /\ f.st = "done" /\ Len(f.log) >= 2
      /\ f.log[1].out = "value" /\ f.log[2].out = "undefined"
      /\ f.result = f.log[1].val /\ f.result # f.data

(***************************************************************************)
(* Claims on the startup coordinator.                                      *)
(***************************************************************************)
\* how often the process of registration number n has been called
TimesStarted(n) == Cardinality({k \in DOMAIN started : started[k].reg = n})

\* the calls made by the loop of ensureStartup, in the order they were made
BatchCalls == SelectSeq(started, LAMBDA c : c.trigger # "late-registration")

\* C3: for any number of interleaved requests, every startup process registered
\* at the time of the first ensureStartup call is invoked exactly once, in
\* descending priority order, and every later ensureStartup call returns
\* without invoking any process.
C3_StartupExactlyOnce ==
  /\ \A r \in Requests :
       ens[r].first =>
         /\ \A k \in DOMAIN ens[r].atCall : TimesStarted(ens[r].atCall[k].reg) <= 1
         /\ ens[r].st = "done" =>
              \A k \in DOMAIN ens[r].atCall : TimesStarted(ens[r].atCall[k].reg) = 1
  /\ \A i, j \in DOMAIN BatchCalls :
       i < j => BatchCalls[i].priority >= BatchCalls[j].priority
  /\ \A r \in Requests :
       ~ens[r].first => \A k \in DOMAIN started : started[k].by # r

TransformCalls(q) == IF q.pc = "transform" THEN q.frame.log ELSE q.transformLog
DecodedOf(q) == IF q.response.decodes THEN DecodedBody(q.response.ctype) ELSE "null"
HookChangedBody(q) ==
  \E k \in DOMAIN q.transformLog :
    /\ q.transformLog[k].out = "value"
    /\ \/ q.transformLog[k].val = Null
       \/ q.transformLog[k].val.body # DecodedOf(q)

\* C5: a request whose transport call succeeds and for which no data-transform
\* hook returns a body different from the decoded one, also when the body could
\* not be decoded, hands the caller the original transport response, and
\* bodyTransformed is not set in the snapshot.
C5_OriginalResponseUnlessTransformed ==
  \A r \in Requests :
    (req[r].pc = "returned" /\ ~HookChangedBody(req[r])) =>
      /\ req[r].outcome.response = "original"
      /\ ~req[r].bodyTransformed

\* a data-transform hook was called on a json body and replaced it by text that
\* does not parse
Corrupts(call) ==
  /\ call.arg # Null
  /\ call.arg.bodyType = "json"
  /\ call.cb \in {"replaceTextInvalid", "setBodyText"}

\* C6: when a data-transform hook replaces a json body with text that cannot be
\* re-parsed, the request fails to its caller with that parse error.
C6_TransformParseErrorPropagates ==
  \A r \in Requests :
    (/\ req[r].pc \in {"returned", "thrown"}
     /\ \E k \in DOMAIN req[r].transformLog : Corrupts(req[r].transformLog[k])) =>
      /\ req[r].outcome.kind = "error"
      /\ req[r].outcome.error = "TransformParseError"

\* C7: when the transport call fails, the on-error chain is executed exactly
\* once with the request descriptor and the error, the same error is raised to
\* the caller, no data-transform or after-request hook runs for the request and
\* no record is stored for it.
C7_TransportFailure ==
  \A r \in Requests :
    req[r].error = "TransportError" =>
      /\ req[r].pc \in {"onerror", "thrown"}
      /\ req[r].chains = <<"beforeRequest", "urlReplace", "onError">>
      /\ req[r].frame.chan = "onError"
      /\ req[r].frame.data =
           [tag |-> "error", error |-> "TransportError",
            request |-> [id |-> r, url |-> req[r].url, urlReplaced |-> FALSE]]
      /\ \A k \in DOMAIN req[r].frame.log : req[r].frame.log[k].arg = req[r].frame.data
      /\ req[r].pc = "thrown" =>
           /\ Len(req[r].frame.log) = Len(req[r].frame.list)
           /\ req[r].outcome = [NoOutcome EXCEPT !.kind = "error", !.error = "TransportError"]
      /\ r \notin DOMAIN storage

\* a request whose transport failed, whose onError hook ran, and which raised
C7_Witness ==
  \E r \in Requests :
    /\ req[r].pc = "thrown"
    /\ req[r].outcome.error = "TransportError"
    /\ Len(req[r].frame.log) = 1
    /\ req[r].frame.log[1].arg.error = "TransportError"

\* C8: a fetch call fails to its caller only when the transport call failed or
\* a data-transform result could not be re-parsed.
C8_OnlyTransportAndParseErrorsSurface ==
  \A r \in Requests :
    req[r].pc = "thrown" =>
      req[r].outcome.error \in {"TransportError", "TransformParseError"}

Times(chain, chan) == Cardinality({k \in DOMAIN chain : chain[k] = chan})

\* C9: for every request whose transport call returns a response, the
\* after-request chain is executed exactly once, after the data-transform chain
\* and before the response is handed to the caller.
C9_AfterRequestAlways ==
  \A r \in Requests :
    (req[r].response # NoResponse /\ req[r].pc \in {"returned", "thrown"}) =>
      /\ Times(req[r].chains, "afterRequest") = 1
      /\ \E i, j \in DOMAIN req[r].chains :
           i < j /\ req[r].chains[i] = "dataTransform" /\ req[r].chains[j] = "afterRequest"

\* C10: if decoding the response body fails, the snapshot's body is null and
\* its type 'unknown', the pipeline continues through the data-transform and
\* after-request chains, and the caller's call does not fail because of it
\* (here: it does not fail when no data-transform hook returns anything).
C10_DecodeFailureAbsorbed ==
  \A r \in Requests :
    LET q == req[r] IN
    (/\ q.response # NoResponse /\ ~q.response.decodes
     /\ q.pc \in {"transform", "after", "onerror", "returned", "thrown"}) =>
      /\ q.bodyType = "unknown"
      /\ (\A k \in DOMAIN TransformCalls(q) : TransformCalls(q)[k].out # "value") =>
           /\ q.body = "null"
           /\ q.pc \notin {"onerror", "thrown"}
           /\ q.pc = "returned" => Times(q.chains, "afterRequest") = 1

\* C11: every request that has completed successfully, with no clearStorage
\* since, has a record in getRequests() under its id, holding its descriptor
\* and response snapshot, whatever hooks are registered; there are no other
\* records; and clearStorage leaves no record.
C11_StoreHoldsCompletedRequests ==
  /\ [](\A r \in Requests :
          (req[r].pc = "returned" /\ ~req[r].cleared) =>
            /\ r \in DOMAIN GetStoredRequests
            /\ GetStoredRequests[r] = [request  |-> req[r].modified.requestData,
                                       response |-> Snapshot(req[r])])
  /\ [](\A k \in DOMAIN GetStoredRequests : req[k].pc \in {"after", "returned"})
  /\ [][ClearStorage => GetStoredRequests' = <<>>]_vars

(***************************************************************************)
(* Claims on the event loop.                                               *)
(***************************************************************************)
\* the loop but for the history fields that count the calls made
Observed(l) == [l EXCEPT !.ops = 0, !.idleStops = 0]

\* C12: a stop call on a loop that is already stopped changes nothing and does
\* not invoke the stop callback; in every step the stop callback is invoked
\* once if the step takes the loop from running to stopped, with a snapshot of
\* the state and the reason of the stop that caused it, and not at all otherwise.
C12_StopCallbackOncePerStop ==
  /\ [][((\E reason \in StopReasons : LoopStop(reason)) /\ ~loop.state.running)
          => Observed(loop') = Observed(loop)]_vars
  /\ [][IF loop.state.running /\ ~loop'.state.running
        THEN loop.config.onStop # "none" =>
               /\ loop'.stopCalls = loop.stopCalls + 1
               /\ loop'.lastStop = [reason |-> loop'.asked, state |-> loop'.state]
        ELSE /\ loop'.stopCalls = loop.stopCalls
             /\ loop'.lastStop = loop.lastStop]_vars

\* a loop with a stop callback that was stopped twice in a row: by its ceiling
\* and then by a stop call, with one call of the callback
C12_Witness ==
  /\ loop.created /\ loop.config.onStop = "callback"
  /\ ~loop.state.running
  /\ loop.stopCalls = 1 /\ loop.lastStop.reason = "maxIterations"
  /\ loop.idleStops >= 1

\* C13: a loop whose iteration counter has reached maxIterations at the end of
\* a tick stops with reason 'maxIterations'; its counter and the number of task
\* runs never pass maxIterations; a stopped loop runs no tick; and for the
\* example configuration (condition iterations < ceiling, maxIterations
\* ceiling) a loop stopped by 'maxIterations' has run its task ceiling times.
C13_StopsAtMaxIterations ==
  /\ [](loop.config.maxIterations = Ceiling =>
          /\ loop.state.iterations <= Ceiling
          /\ loop.runs <= Ceiling)
  /\ [][(TaskSettles /\ loop.state.running
           /\ loop.state.iterations >= loop.config.maxIterations)
          => (~loop'.state.running /\ loop'.asked = "maxIterations")]_vars
  /\ [][(~loop.state.running /\ ~loop'.state.running) => loop'.now = loop.now]_vars
  /\ []((/\ loop.config.condition = "belowCeiling"
          /\ loop.config.maxIterations = Ceiling
          /\ ~loop.state.running /\ loop.asked = "maxIterations")
         => (loop.runs = Ceiling /\ loop.state.iterations = Ceiling))

\* C14: update on a running loop changes the configuration fields given and no
\* other, and leaves the iteration counter, the running flag and the last-run
\* timestamp as they were; after update has raised maxIterations at iteration
\* k, the counter goes on from k up to the new ceiling: it does not pass it,
\* and a loop stopped by 'maxIterations' has stopped at the new ceiling.
C14_UpdateKeepsCounter ==
  /\ [][\A newConfig \in NewConfigs :
          (LoopUpdate(newConfig) /\ loop.state.running) =>
            /\ \A f \in DOMAIN loop.config :
                 loop'.config[f] = IF f \in DOMAIN newConfig THEN newConfig[f]
                                   ELSE loop.config[f]
            /\ loop'.state.iterations = loop.state.iterations
            /\ loop'.state.running = loop.state.running
            /\ loop'.state.lastRunAt = loop.state.lastRunAt]_vars
  /\ [](loop.raised =>
          /\ loop.state.iterations <= loop.config.maxIterations
          /\ (~loop.state.running /\ loop.asked = "maxIterations")
               => loop.state.iterations = loop.config.maxIterations)

(***************************************************************************)
(* Further claims on the startup coordinator.                              *)
(***************************************************************************)
\* the late-registration jobs still queued for the process of registration n
Queued(n) == Cardinality({k \in DOMAIN late : late[k].reg = n})

\* C15: a process registered when startupInitiated is true is not called by
\* the register call itself; with runIfAlreadyStarted it is called exactly once,
\* with trigger 'late-registration', and without it never; and no startup
\* process is called a second time.
C15_LateRegistrationRunsOnce ==
  /\ [][procCount' # procCount => started' = started]_vars
  /\ [](\A k \in DOMAIN started :
          started[k].initiated =>
            /\ started[k].runIfAlreadyStarted
            /\ started[k].trigger = "late-registration")
  /\ [](\A k \in DOMAIN startupProcesses :
          LET p == startupProcesses[k] IN
            (p.initiated /\ p.runIfAlreadyStarted) =>
              TimesStarted(p.reg) + Queued(p.reg) = 1)
  /\ []((\E k \in DOMAIN startupProcesses : startupProcesses[k].initiated) =>
          \A k \in DOMAIN started : TimesStarted(started[k].reg) = 1)

\* the calls made by the loop of request r's ensureStartup, and whether the
\* process of registration n has been called and has settled
CallsBy(r) == {k \in DOMAIN started : started[k].by = r}
AwaitedBy(r, n) ==
  /\ ens[r].st = "await"
  /\ \E k \in CallsBy(r) : started[k].reg = n /\ \A j \in CallsBy(r) : j <= k
Finished(n) == TimesStarted(n) >= 1 /\ \A r \in Requests : ~AwaitedBy(r, n)

\* C16: once a request has begun its before-request chain (and so before its
\* transport call), every startup process that was registered when startup was
\* triggered has been called and has settled, also for a request issued while
\* the batch triggered by another request is suspended.
C16_StartupBeforeRequest ==
  \A r \in Requests :
    req[r].chains # <<>> =>
      \A f \in Requests :
        ens[f].first => \A k \in DOMAIN ens[f].atCall : Finished(ens[f].atCall[k].reg)

(***************************************************************************)
(* Claims on replaceUrl.                                                   *)
(***************************************************************************)
\* C17: with one hook registered by replaceUrl(S, T), S and T strings, a
\* request whose url is S reaches the transport with url T and has urlReplaced
\* set; a request with any other url reaches the transport with its own url
\* and urlReplaced not set.
C17_ReplaceUrlExactMatch ==
  \A r \in Requests :
    (/\ req[r].pc = "transport"
     /\ Len(req[r].frame.list) = 1
     /\ req[r].frame.list[1].cb \in {"replaceUrl", "replaceUrlDollar"}) =>
      IF req[r].url = FromUrl
      THEN /\ req[r].sentUrl = ToUrlOf(req[r].frame.list[1].cb)
           /\ req[r].modified.requestData.url = req[r].sentUrl
           /\ req[r].modified.requestData.urlReplaced
      ELSE /\ req[r].sentUrl = req[r].url
           /\ req[r].modified.requestData.url = req[r].url
           /\ ~req[r].modified.requestData.urlReplaced

(***************************************************************************)
(* Further claims on the registry.                                         *)
(***************************************************************************)
\* C18: the id register returns is the id of the entry that call inserted,
\* whatever the priority and whatever the channel already holds; and remove
\* called with the channel and the returned id removes that entry and no other.
C18_RegisterReturnsOwnId ==
  /\ [](registered.kind = "id" =>
          \A k \in DOMAIN hooks[registered.chan] :
            hooks[registered.chan][k].reg = registered.reg =>
              hooks[registered.chan][k].id = registered.value)
  /\ [][(registered.kind = "id" /\ RemoveHook(registered.chan, registered.value)) =>
          hooks'[registered.chan] =
            SelectSeq(hooks[registered.chan], LAMBDA h : h.reg # registered.reg)]_vars

\* C19: after any sequence of register and remove calls no channel holds two
\* entries with the same id.
C19_IdsUniquePerChannel ==
  \A chan \in Channels :
    \A i, j \in DOMAIN hooks[chan] : i # j => hooks[chan][i].id # hooks[chan][j].id

\* C20: register with a name that is no channel raises an error to its caller
\* and leaves every channel as it was (and register with a channel's name
\* raises none); execute with such a name fails to its caller without calling
\* a hook (and with a channel's name it does not fail).
C20_UnknownChannelFails ==
  /\ [](registered.kind # "none" =>
          (registered.kind = "error" <=> registered.chan \notin Channels))
  /\ [][(regCount' # regCount /\ registered'.chan \notin Channels) =>
          (hooks' = hooks /\ registered'.kind = "error")]_vars
  /\ [](\A c \in Callers :
          calls[c].st # "idle" =>
            /\ calls[c].st = "failed" <=> calls[c].chan \notin Channels
            /\ calls[c].chan \notin Channels => calls[c].log = <<>>)

\* register was called with a name of Object.prototype and raised an error, and
\* execute was called with a name that is no channel and failed, with the
\* registry holding a user's hook
C20_Witness ==
  /\ registered.kind = "error" /\ registered.chan \in InheritedNames
  /\ \E c \in Callers : calls[c].st = "failed" /\ calls[c].chan \in UnknownNames
  /\ Len(hooks["afterRequest"]) = 2

(***************************************************************************)
(* Further claims on the event loop.                                       *)
(***************************************************************************)
\* the timers of the loop that have not fired and were not cancelled
PendingTicks(l) == l.others + (IF l.state.timer = "pending" THEN 1 ELSE 0)

\* C21: at every moment the loop has at most one pending scheduled tick and at
\* most one task invocation in progress, over any interleaving of start, stop
\* and update calls with timer ticks and suspended task invocations.
C21_OneTickOneTask ==
  /\ PendingTicks(loop) <= 1
  /\ loop.inflight <= 1

(***************************************************************************)
(* The startup batch under registrations and removals.                     *)
(***************************************************************************)
\* the registration numbers of the processes registered when request r's
\* ensureStartup began its loop
AtStart(r) == {ens[r].atCall[k].reg : k \in DOMAIN ens[r].atCall}

\* C22: over any interleaving of ensureStartup calls with register and remove
\* calls, also registrations made while the batch is suspended in a process, no
\* startup process is invoked more than once, and the batch invokes only the
\* processes that were registered when it started.
C22_BatchIsASnapshot ==
  /\ \A n \in 1..MaxProcs : TimesStarted(n) <= 1
  /\ \A k \in DOMAIN started :
       started[k].trigger # "late-registration" =>
         started[k].reg \in AtStart(started[k].by)

\* C23: once stop has been called on a running loop, by a caller, by the task
\* or by runTask itself, the task is not invoked again and no new tick is
\* scheduled until start is called: a step that leaves the loop stopped adds no
\* pending tick, a step of a stopped loop that does not start it invokes no
\* task, and a stopped loop holds no timer of its own; also when a tick was
\* still pending or a task invocation was suspended when stop was called.
C23_StoppedLoopStaysIdle ==
  /\ [][~loop'.state.running => PendingTicks(loop') <= PendingTicks(loop)]_vars
  /\ [][(~loop.state.running /\ ~loop'.state.running) =>
          /\ loop'.now = loop.now
          /\ loop'.runs = loop.runs
          /\ loop'.state.iterations = loop.state.iterations
          /\ loop'.state.lastRunAt = loop.state.lastRunAt
          /\ loop'.inflight <= loop.inflight]_vars
  /\ [](~loop.state.running => loop.state.timer = "null")

\* a loop stopped by a caller after its task had run, on which since then two
\* timers fired or suspended task invocations settled: nothing is pending and
\* nothing is in progress any more
C23_Witness ==
  /\ loop.created /\ ~loop.state.running
  /\ loop.asked = "manual"
  /\ loop.idleWakes >= 2
  /\ loop.runs >= 1
  /\ loop.inflight = 0 /\ PendingTicks(loop) = 0

(***************************************************************************)
(* Further claims on the pipeline.                                         *)
(***************************************************************************)
\* the stages of a request in the order of lines 107-205
StageOrder ==
  <<"idle", "startup", "before", "urlrep", "transport", "decode", "transform",
    "after", "returned">>
StageRank(pc) == CHOOSE k \in DOMAIN StageOrder : StageOrder[k] = pc

\* the chains of a request in the order of lines 110-199
ChainOrder == <<"beforeRequest", "urlReplace", "dataTransform", "afterRequest">>
IsPrefix(s, of) == Len(s) <= Len(of) /\ \A k \in DOMAIN s : s[k] = of[k]

\* the callbacks an activation of executeHooks has called and that have not
\* settled: the calls made less the awaits passed
CallbacksInProgress(f) ==
  Len(f.log) - (IF f.st = "await" THEN f.i - 1 ELSE Len(f.list))

\* the stage of request r is over: its ensureStartup has returned, its chain
\* has returned, the transport or the read of the body has settled
StageOver(r) ==
  CASE req[r].pc = "startup" -> ens[r].st = "done"
    [] req[r].pc \in {"before", "urlrep", "transform", "after", "onerror"} ->
         req[r].frame.st # "await"
    [] OTHER -> TRUE

\* C24: within one request the stages run one after another in the order
\* startup check, before-request, url-replace, transport call, body decode,
\* data-transform, after-request (a failure leaves the order: for the on-error
\* chain, or for its caller when no stage has begun); a request leaves a stage
\* only when that stage is over; and at most
\* one hook callback of a request is in progress at a time.  (That the stages
\* of different requests interleave is what the witness shows.)
C24_StagesSequential ==
  /\ [][\A r \in Requests :
          req'[r].pc # req[r].pc =>
            /\ StageOver(r)
            /\ \/ /\ req[r].pc \in {StageOrder[k] : k \in 1..8}
                  /\ req'[r].pc \in {StageOrder[k] : k \in 1..9}
                  /\ StageRank(req'[r].pc) = StageRank(req[r].pc) + 1
               \/ /\ req[r].pc \in {StageOrder[k] : k \in 3..8}
                  /\ req'[r].pc = "onerror"
               \/ req[r].pc \in {"idle", "onerror"} /\ req'[r].pc = "thrown"]_vars
  /\ [](\A r \in Requests :
          /\ CallbacksInProgress(req[r].frame) \in {0, 1}
          /\ \/ IsPrefix(req[r].chains, ChainOrder)
             \/ /\ req[r].chains # <<>>
                /\ req[r].chains[Len(req[r].chains)] = "onError"
                /\ IsPrefix(SubSeq(req[r].chains, 1, Len(req[r].chains) - 1), ChainOrder))

\* two requests in flight at once, one suspended in a hook of its
\* after-request chain and the other in a hook of its before-request chain
C24_Witness ==
  /\ req[1].pc = "after" /\ req[1].frame.st = "await"
  /\ CallbacksInProgress(req[1].frame) = 1
  /\ req[2].pc = "before" /\ req[2].frame.st = "await"
  /\ CallbacksInProgress(req[2].frame) = 1

\* C25: update on a running loop with a tick pending cancels that tick and
\* schedules one new tick, set by the update call with a delay computed from
\* the merged configuration, so that the one tick pending after the call is the
\* new one; update on a loop that is not running schedules nothing.
C25_UpdateReschedules ==
  [][\A newConfig \in NewConfigs :
       LoopUpdate(newConfig) =>
         IF loop.state.running
         THEN PendingTicks(loop) >= 1 =>
                /\ PendingTicks(loop') = 1
                /\ loop'.state.timer = "pending"
                /\ loop'.tick.delay = Assigned(loop.config, newConfig).interval
                /\ loop'.tick.by = "update"
         ELSE /\ PendingTicks(loop') = PendingTicks(loop)
              /\ loop'.state.timer = loop.state.timer
              /\ loop'.tick = loop.tick]_vars

\* C26: the on-error chain is executed for a request only when the failure
\* occurred before a response existed: a request whose transport call has
\* returned a response never has the on-error chain run for it.
C26_OnErrorOnlyBeforeResponse ==
  \A r \in Requests :
    Times(req[r].chains, "onError") > 0 => req[r].response = NoResponse

\* C27: for every request that has terminated exactly one of the after-request
\* chain and the on-error chain has been executed, once: the after-request
\* chain if and only if the request returned a response, the on-error chain if
\* and only if it raised.
C27_ExactlyOneClosingChain ==
  \A r \in Requests :
    req[r].pc \in {"returned", "thrown"} =>
      /\ Times(req[r].chains, "afterRequest") + Times(req[r].chains, "onError") = 1
      /\ req[r].pc = "returned" <=> Times(req[r].chains, "afterRequest") = 1
      /\ req[r].pc = "thrown" <=> Times(req[r].chains, "onError") = 1

(***************************************************************************)
(* Further claims on the store.                                            *)
(***************************************************************************)
\* the places of the store's hook among the calls of a chain
SaveCalls(log) == {k \in DOMAIN log : log[k].id = "auto-save"}

\* C28: for every request that has returned a response, the store's save hook
\* was called after every other enabled after-request hook, whatever their
\* priorities, and the record stored for the request is the descriptor and
\* snapshot that the pipeline passed to the after-request chain.
C28_StoreSavesLastAndFinal ==
  \A r \in Requests :
    req[r].pc = "returned" =>
      LET f == req[r].frame IN
        /\ SaveCalls(f.log) = {Len(f.log)}
        /\ r \in DOMAIN storage
        /\ storage[r] = [request |-> f.data.request, response |-> f.data.response]
        /\ f.data = AfterPayload(req[r])

\* what the data-transform chain of a request returned, once it has returned
\* (the chain had hooks: without one it returns its payload)
TransformResult(q) == PassedOn(q.transformLog[Len(q.transformLog)])

\* the chain returned a body that is not the decoded one
TransformedBody(q) ==
  /\ q.pc \in {"after", "onerror", "returned", "thrown"}
  /\ q.transformLog # <<>>
  /\ TransformResult(q) # Null
  /\ TransformResult(q).body # DecodedOf(q)

\* C29: when the data-transform chain returns a body different from the decoded
\* body, the snapshot passed to the after-request chain has bodyTransformed
\* true and the new body, and the caller receives a new response with the new
\* body and the status, status text and headers of the transport response.
C29_TransformedResponseRebuilt ==
  \A r \in Requests :
    LET q == req[r] IN
      TransformedBody(q) =>
        /\ q.pc \in {"after", "returned"}
        /\ q.frame.chan = "afterRequest"
        /\ q.frame.data.response.bodyTransformed
        /\ q.frame.data.response.body = TransformResult(q).body
        /\ q.pc = "returned" =>
             /\ q.outcome.response = "rebuilt"
             /\ q.outcome.body = Serialized(TransformResult(q).body)
             /\ q.outcome.init = q.response

(***************************************************************************)
(* Claims on the url-replace stage.                                        *)
(***************************************************************************)
\* the url-replace chain of request r has returned a url that is not the one
\* it was given
UrlChanged(r) ==
  /\ req[r].frame.result # Null
  /\ req[r].frame.result.url # req[r].frame.data.url

\* C30: in the step that calls the transport, requestData.urlReplaced is set
\* exactly when the url the url-replace chain returned differs from the url it
\* was given; then the transport is called with the new url and the url of the
\* snapshot's request data is the new url; otherwise the transport is called
\* with the resource the before-request chain returned, and the request data
\* is as that chain returned it, urlReplaced not set.
C30_UrlReplacedIffChanged ==
  [][\A r \in Requests :
       (req[r].pc = "urlrep" /\ req'[r].pc = "transport") =>
         IF UrlChanged(r)
         THEN /\ req'[r].modified.requestData.urlReplaced
              /\ req'[r].sentUrl = req[r].frame.result.url
              /\ Snapshot(req'[r]).requestData.url = req[r].frame.result.url
         ELSE /\ ~req'[r].modified.requestData.urlReplaced
              /\ req'[r].sentUrl = req[r].modified.resource
              /\ req'[r].modified.requestData = req[r].modified.requestData]_vars

\* a request for another url whose before-request hook set its url to FromUrl
\* and whose url-replace hook then replaced that url: the transport is called
\* with ToUrl, and urlReplaced is set
C30_Witness ==
  \E r \in Requests :
    /\ req[r].pc = "transport"
    /\ req[r].url # FromUrl
    /\ req[r].modified.requestData.urlReplaced
    /\ req[r].sentUrl = ToUrl
    /\ req[r].modified.requestData.url = ToUrl

\* C31: the delay of the next tick is computed by evaluating interval on the
\* state after the current tick's increment: the tick scheduled after the k-th
\* task invocation of a run has its interval evaluated with iterations = k, the
\* first tick after start with iterations = 0, and the delay used is never
\* negative (it is the interval, or zero when that is not positive).
C31_IntervalSeesPostTickState ==
  loop.state.timer = "pending" =>
    /\ loop.tick.ms >= 0
    /\ loop.tick.ms = Delay(IF loop.tick.delay = "function"
                            THEN Ceiling - loop.tick.seen ELSE DefaultInterval)
    /\ loop.tick.by = "start" => loop.tick.seen = 0
    /\ loop.tick.by = "runTask" => loop.tick.seen = loop.tick.after

\* a timer of the loop fires and runTask is entered
Ticks == \E stops \in BOOLEAN : TimerFires(stops) \/ OtherTimerFires(stops)

\* C32: on a tick of a running loop whose condition ({iterations}) =>
\* iterations < ceiling is false on the counter as the tick finds it, the loop
\* stops with reason 'condition', the counter is not incremented and the task
\* is not invoked; when the condition is true on that counter (even if it
\* would be false after the increment) the task is invoked.
C32_ConditionStopsBeforeIncrement ==
  [][(Ticks /\ loop.state.running /\ loop.config.condition = "belowCeiling")
       => IF loop.state.iterations >= Ceiling
          THEN /\ ~loop'.state.running
               /\ loop'.state.timer = "null"
               /\ loop'.asked = "condition"
               /\ loop'.state.iterations = loop.state.iterations
               /\ loop'.state.lastRunAt = loop.state.lastRunAt
               /\ loop'.runs = loop.runs
               /\ loop'.inflight = loop.inflight
               /\ loop.config.onStop # "none"
                    => /\ loop'.stopCalls = loop.stopCalls + 1
                       /\ loop'.lastStop.reason = "condition"
                       /\ loop'.lastStop.state.iterations = loop.state.iterations
          ELSE /\ loop'.state.iterations = loop.state.iterations + 1
               /\ loop'.runs = loop.runs + 1]_vars

\* a loop without a ceiling stopped by its condition, the stop callback told
\* so, after the task ran on every tick that found the counter below the
\* ceiling of the condition
C32_Witness ==
  /\ loop.config.condition = "belowCeiling"
  /\ loop.config.maxIterations = Infinity
  /\ ~loop.state.running
  /\ loop.asked = "condition"
  /\ loop.lastStop.reason = "condition"
  /\ loop.state.iterations = Ceiling
  /\ loop.runs = Ceiling

\* how a tick ends once its task is over, lines 536-545: the loop stops with
\* reason 'maxIterations' when the counter has reached the cap, and the next
\* tick is scheduled by runTask otherwise
EndsAsAfterSuccess ==
  IF loop'.state.iterations >= loop.config.maxIterations
  THEN ~loop'.state.running /\ loop'.asked = "maxIterations"
       /\ loop'.state.timer = "null"
  ELSE loop'.state.running /\ loop'.state.timer = "pending"
       /\ loop'.tick.by = "runTask"

\* C33: when the task throws on a tick, or returns a promise that rejects, the
\* iteration counts (the counter was incremented for the tick and is not taken
\* back), the loop stays Running and the tick ends as after a successful task:
\* the next tick is scheduled, or the loop stops with reason 'maxIterations'
\* when the cap is reached. (Neither task calls stop.)
C33_TaskFailureIsolated ==
  /\ [][(Ticks /\ loop.state.running /\ ConditionHolds(loop)
           /\ loop.config.task = "throws")
          => /\ loop'.state.iterations = loop.state.iterations + 1
             /\ loop'.runs = loop.runs + 1
             /\ loop'.inflight = loop.inflight
             /\ EndsAsAfterSuccess]_vars
  /\ [][(Ticks /\ loop.state.running /\ ConditionHolds(loop)
           /\ loop.config.task = "rejects")
          => /\ loop'.state.iterations = loop.state.iterations + 1
             /\ loop'.runs = loop.runs + 1
             /\ loop'.inflight = loop.inflight + 1
             /\ loop'.state.running]_vars
  /\ [][(TaskSettles /\ loop.state.running /\ loop.config.task = "rejects")
          => /\ loop'.state.iterations = loop.state.iterations
             /\ EndsAsAfterSuccess]_vars

\* a loop whose task rejects has run it a second time, on the tick scheduled
\* after the first rejection, and a third tick is pending
C33_Witness ==
  /\ loop.config.task = "rejects"
  /\ loop.config.maxIterations = Infinity
  /\ loop.state.running
  /\ loop.state.iterations = 2
  /\ loop.runs = 2
  /\ loop.inflight = 0
  /\ loop.state.timer = "pending"
  /\ loop.tick.by = "runTask"

\* C34: start on a loop that is not running (idle, or stopped) sets it Running
\* with the counter at zero and schedules the first tick; start on a Running
\* loop changes nothing: counter, pending ticks and state are as before; and
\* while the loop is Running the counter never decreases and increases by
\* exactly one on each tick that invokes the task and on no other step.
C34_StartResetsAndCounterCounts ==
  /\ [][(LoopStart /\ ~loop.state.running)
          => /\ loop'.state.running
             /\ loop'.state.iterations = 0
             /\ loop'.state.timer = "pending"
             /\ loop'.tick.by = "start"
             /\ PendingTicks(loop') = PendingTicks(loop) + 1]_vars
  /\ [][(LoopStart /\ loop.state.running)
          => /\ loop'.state = loop.state
             /\ loop'.config = loop.config
             /\ PendingTicks(loop') = PendingTicks(loop)
             /\ loop'.tick = loop.tick]_vars
  /\ [][loop.state.running
          => IF Ticks /\ loop'.runs = loop.runs + 1
             THEN loop'.state.iterations = loop.state.iterations + 1
             ELSE loop'.state.iterations = loop.state.iterations]_vars

\* a loop stopped after two invocations was started again and has run its
\* task once since: the counter, reset by start, stands at one
C34_Witness ==
  /\ loop.state.running
  /\ loop.now = 3
  /\ loop.state.iterations = 1
  /\ loop.runs = 1
  /\ loop.inflight = 0
  /\ loop.others = 0
  /\ loop.ops >= 2

(***************************************************************************)
(* Further claims on the startup coordinator and the registry.             *)
(***************************************************************************)
\* the calls made by the loop of the ensureStartup activation of request r
BatchOf(r) == SelectSeq(started, LAMBDA c : c.by = r /\ c.trigger # "late-registration")

\* C35: a startup process that throws or rejects does not end the batch: the
\* activation of ensureStartup never fails; the processes of the batch (those
\* registered when it began, held in descending priority order) that come
\* after the failing one are still invoked, each after those in front of it,
\* so that a finished batch has invoked every one of them; and the request
\* that triggered it goes on to its beforeRequest hooks once ensureStartup
\* has returned.
C35_StartupFailureIsolated ==
  \A r \in Requests :
    /\ ens[r].st \in {"idle", "await", "done"}
    /\ \A k, l \in DOMAIN ens[r].atCall :
         k < l => /\ ens[r].atCall[k].priority >= ens[r].atCall[l].priority
                  /\ \A j \in DOMAIN BatchOf(r) :
                       BatchOf(r)[j].reg = ens[r].atCall[l].reg
                         => \E i \in 1..(j - 1) :
                              BatchOf(r)[i].reg = ens[r].atCall[k].reg
    /\ (ens[r].first /\ ens[r].st = "done")
         => \A k \in DOMAIN ens[r].atCall :
              \E i \in DOMAIN BatchOf(r) : BatchOf(r)[i].reg = ens[r].atCall[k].reg
    /\ (req[r].pc = "startup" /\ ens[r].st = "done") => ENABLED FetchBeforeRequest(r)

\* a finished batch whose first process failed and whose second process was
\* invoked after it
C35_Witness ==
  \E r \in Requests :
    /\ ens[r].first /\ ens[r].st = "done"
    /\ Len(ens[r].atCall) = 2
    /\ Len(BatchOf(r)) = 2
    /\ BatchOf(r)[1].out = "throw"
    /\ BatchOf(r)[1].priority > BatchOf(r)[2].priority
    /\ BatchOf(r)[2].reg # BatchOf(r)[1].reg

\* C36: the hooks one execute call runs, and their order, are fixed when the
\* call starts: they are the enabled entries the channel held at that moment
\* (the list of the call), which no register or remove made while the call is
\* suspended in a callback changes; the call runs exactly that list, and an
\* entry registered or removed meanwhile counts from the next execute call,
\* whose list is the channel's enabled entries at its own start.
C36_HookListFixedAtStart ==
  /\ [](\A c \in Callers :
          LET f == calls[c] IN
            f.st \in {"await", "done"} =>
              /\ Len(f.log) <= Len(f.list)
              /\ \A k \in DOMAIN f.log : f.log[k].reg = f.list[k].reg
              /\ f.st = "await" => Len(f.log) = f.i
              /\ f.st = "done" => Len(f.log) = Len(f.list))
  /\ [][\A c \in Callers :
          calls[c].st = "await" => calls'[c].list = calls[c].list]_vars
  /\ [][\A c \in Callers, chan \in RegistryChannels :
          ExecuteCall(c, chan)
            => /\ calls'[c].list = Enabled(hooks[chan])
               /\ calls'[c].st = "await" => calls'[c].log[1].reg = Enabled(hooks[chan])[1].reg]_vars

\* a call suspended in its second hook, which was removed from the channel
\* after the call started, while the channel holds no enabled entry any more
\* that the call has not run
C36_Witness ==
  \E c \in Callers :
    LET f == calls[c] IN
      /\ f.st = "await" /\ f.i = 2
      /\ Len(f.log) = 2 /\ f.log[2].reg = f.list[2].reg
      /\ \A k \in DOMAIN hooks[f.chan] : hooks[f.chan][k].reg # f.list[2].reg

(***************************************************************************)
(* The event loop with a finite ceiling and no update call, under the      *)
(* scheduling of the host: a timer that is pending fires, and a task that  *)
(* is awaited settles.  A start is explored only while the ticks left      *)
(* suffice for a whole run.                                                *)
(***************************************************************************)
FiniteConfigs == {c \in LoopConfigs : c.maxIterations = Ceiling}

NextFinite ==
  \/ \E id \in LoopIds, config \in FiniteConfigs : CreateEventLoop(id, config)
  \/ loop.now + Ceiling <= MaxTicks /\ LoopStart
  \/ \E reason \in StopReasons : LoopStop(reason)
  \/ \E stops \in BOOLEAN : TimerFires(stops)
  \/ \E stops \in BOOLEAN : OtherTimerFires(stops)
  \/ TaskSettles

SpecFinite ==
  /\ Init /\ [][NextFinite]_vars
  /\ WF_vars(\E stops \in BOOLEAN : TimerFires(stops))
  /\ WF_vars(\E stops \in BOOLEAN : OtherTimerFires(stops))
  /\ WF_vars(TaskSettles)

\* C37: a started loop with a finite maxIterations M >= 1 on which update is
\* not called, and whose task, condition and interval always return,
\* eventually reaches the stopped state; since its start the task has been
\* invoked at most M times, and its counter never exceeds M.
C37_FiniteLoopStops ==
  /\ [](loop.created
          => /\ loop.runs <= loop.config.maxIterations
             /\ loop.state.iterations <= loop.config.maxIterations)
  /\ (loop.state.running ~> ~loop.state.running)

\* the positions of the entries of a channel that carry an id
Holding(s, id) == {k \in DOMAIN s : s[k].id = id}

\* C38: remove(channel, id) raises no error; with an id the channel does not
\* hold, or a name that is no channel, it leaves every channel as it was; with
\* an id the channel holds it takes that one entry out, and the other entries
\* of the channel, their order, and all other channels stay as they were.
C38_RemoveIsExact ==
  [][\A name \in NamesTried, id \in IdsTried :
       RemoveHook(name, id)
         => /\ removed' = "none"
            /\ IF name \in Channels /\ Holding(hooks[name], id) # {}
               THEN /\ \E k \in Holding(hooks[name], id) :
                         hooks'[name] = Without(hooks[name], k)
                    /\ \A c \in Channels \ {name} : hooks'[c] = hooks[c]
               ELSE hooks' = hooks]_vars

\* C39: once the first ensureStartup call has set it, startupInitiated stays
\* true: no step of the coordinator (a registration, a removal, a process that
\* fails, a later request) takes it back to false.
C39_InitiatedIsStable ==
  [][startupInitiated => startupInitiated']_vars

\* startup was initiated, a process of the batch has failed, a process has
\* been removed, a process registered after the start has run as a late
\* registration, and a later request has found the coordinator started
C39_Witness ==
  /\ startupInitiated
  /\ \E k \in DOMAIN started : started[k].out = "throw" /\ started[k].trigger = "fetch"
  /\ \E k \in DOMAIN started : started[k].trigger = "late-registration"
  /\ procCount = MaxProcs
  /\ Len(startupProcesses) < MaxProcs
  /\ \E r \in Requests : ens[r].st = "done" /\ ~ens[r].first

====
